---- MODULE Spec2Model ----
(***************************************************************************)
(* A model of swerve (swerve/main.go): the redirect rule loader            *)
(* (parseRules, loadRedirectsFromDir, loadRules), the published            *)
(* redirectMap behind mapMutex, redirectHandler and healthCheckHandler.    *)
(*                                                                         *)
(* A Go string is a sequence of one-character strings: "/a" is <<"/","a">>.*)
(***************************************************************************)
EXTENDS Integers, Sequences, FiniteSets, TLC

(***************************************************************************)
(* The strings package, as main.go uses it.                                *)
(***************************************************************************)

\* unicode.IsSpace over the characters of the model
Space ==
    {" ", "\t", "\n", "\r"}

Digits ==
    {"0", "1", "2", "3", "4", "5", "6", "7", "8", "9"}

Letters ==
    {"a", "b", "c", "d", "e", "f", "g", "h", "i", "j", "k", "l", "m",
     "n", "o", "p", "q", "r", "s", "t", "u", "v", "w", "x", "y", "z",
     "A", "B", "C", "D", "E", "F", "G", "H", "I", "J", "K", "L", "M",
     "N", "O", "P", "Q", "R", "S", "T", "U", "V", "W", "X", "Y", "Z"}

DigitVal(c) ==
    CASE c = "0" -> 0 [] c = "1" -> 1 [] c = "2" -> 2 [] c = "3" -> 3
      [] c = "4" -> 4 [] c = "5" -> 5 [] c = "6" -> 6 [] c = "7" -> 7
      [] c = "8" -> 8 [] c = "9" -> 9

Min(a, b) ==
    IF a < b THEN a ELSE b

\* s[from:] with a 0-based offset, as a Go slice expression
Drop(s, from) ==
    SubSeq(s, from + 1, Len(s))

\* s[:to]
Take(s, to) ==
    SubSeq(s, 1, to)

\* strings.HasPrefix
HasPrefix(s, prefix) ==
    /\ Len(s) >= Len(prefix)
    /\ Take(s, Len(prefix)) = prefix

\* strings.HasSuffix
HasSuffix(s, suffix) ==
    /\ Len(s) >= Len(suffix)
    /\ Drop(s, Len(s) - Len(suffix)) = suffix

RECURSIVE TrimLeftSet(_, _)
TrimLeftSet(s, cutset) ==
    IF s # <<>> /\ Head(s) \in cutset THEN TrimLeftSet(Tail(s), cutset) ELSE s

RECURSIVE TrimRightSet(_, _)
TrimRightSet(s, cutset) ==
    IF s # <<>> /\ s[Len(s)] \in cutset
    THEN TrimRightSet(Take(s, Len(s) - 1), cutset)
    ELSE s

\* strings.TrimSpace
TrimSpace(s) ==
    TrimRightSet(TrimLeftSet(s, Space), Space)

\* strings.TrimRight(s, cutset), cutset given as a string
TrimRight(s, cutset) ==
    TrimRightSet(s, {cutset[i] : i \in 1..Len(cutset)})

\* strings.LastIndex(s, sep) for a one-character sep: 0-based, -1 when absent
LastIndex(s, sep) ==
    LET hits == {i \in 1..Len(s) : s[i] = sep[1]}
    IN  IF hits = {} THEN -1 ELSE (CHOOSE i \in hits : \A j \in hits : j <= i) - 1

\* strings.ReplaceAll(s, old, new): every non-overlapping instance, left to right
RECURSIVE ReplaceAll(_, _, _)
ReplaceAll(s, old, new) ==
    IF s = <<>> THEN <<>>
    ELSE IF HasPrefix(s, old) THEN new \o ReplaceAll(Drop(s, Len(old)), old, new)
    ELSE <<Head(s)>> \o ReplaceAll(Tail(s), old, new)

\* the value of the decimal digits s after the value acc
RECURSIVE DecimalValue(_, _)
DecimalValue(s, acc) ==
    IF s = <<>> THEN acc ELSE DecimalValue(Tail(s), acc * 10 + DigitVal(Head(s)))

\* The largest int.  strconv.Atoi parses to the size of int, which is the
\* build's: 32 bits (this value) or 64 (1<<63 - 1).  The numbers of the rule
\* files of this model are either within 32 bits or beyond 64, so the two
\* builds differ in nothing but this value.
MaxInt ==
    2147483647

MinInt ==
    (0 - MaxInt) - 1

\* whether the digits s, read after the value acc, pass MaxInt
RECURSIVE Overflows(_, _)
Overflows(s, acc) ==
    IF s = <<>> THEN FALSE
    ELSE IF acc > (MaxInt - DigitVal(Head(s))) \div 10 THEN TRUE
    ELSE Overflows(Tail(s), acc * 10 + DigitVal(Head(s)))

\* an Atoi that gives 0 with every error
AtoiZeroOnError(s) ==
    LET signed == s # <<>> /\ Head(s) \in {"+", "-"}
        body == IF signed THEN Tail(s) ELSE s
        ok == body # <<>> /\ \A i \in 1..Len(body) : body[i] \in Digits
    IN  IF ~ok \/ Overflows(body, 0) THEN [v |-> 0, ok |-> FALSE]
        ELSE [v |-> IF signed /\ Head(s) = "-"
                    THEN 0 - DecimalValue(body, 0)
                    ELSE DecimalValue(body, 0),
              ok |-> TRUE]

\* strconv.Atoi: [v, ok], ok = FALSE being a non-nil err.  A syntax error
\* gives 0; a value out of range gives the nearest int (the value MinInt
\* itself is given as out of range: v is the same).
Atoi(s) ==
    LET signed == s # <<>> /\ Head(s) \in {"+", "-"}
        neg == signed /\ Head(s) = "-"
        body == IF signed THEN Tail(s) ELSE s
        ok == body # <<>> /\ \A i \in 1..Len(body) : body[i] \in Digits
    IN  IF ~ok THEN [v |-> 0, ok |-> FALSE]
        ELSE IF Overflows(body, 0) THEN [v |-> IF neg THEN MinInt ELSE MaxInt, ok |-> FALSE]
        ELSE [v |-> IF neg THEN 0 - DecimalValue(body, 0) ELSE DecimalValue(body, 0),
              ok |-> TRUE]

(***************************************************************************)
(* The regexp package, over the patterns the rule files of this model      *)
(* hold: literals, escaped punctuation, ., \d, \w, \s, ^, $, capture       *)
(* groups, and the greedy *, + and ? on a single character.  A compiled    *)
(* pattern is its sequence of tokens [k, c, q, g]: kind, literal           *)
(* character, quantifier, group number.                                    *)
(***************************************************************************)

Tok(k, c, g) ==
    [k |-> k, c |-> c, q |-> "1", g |-> g]

ReError ==
    [st |-> "error", toks |-> <<>>, n |-> 0]

\* syntax that regexp accepts and this model does not cover
ReUnsupported ==
    [st |-> "unsupported", toks |-> <<>>, n |-> 0]

RECURSIVE ParseRe(_, _, _, _, _)
ParseRe(p, i, toks, open, n) ==
    IF i > Len(p)
    THEN IF open # <<>> THEN ReError              \* missing closing )
         ELSE [st |-> "ok", toks |-> toks, n |-> n]
    ELSE LET c == p[i]
             last == toks[Len(toks)]
         IN  CASE c = "(" ->
                    ParseRe(p, i + 1, Append(toks, Tok("open", "", n + 1)),
                            <<n + 1>> \o open, n + 1)
               [] c = ")" ->
                    IF open = <<>> THEN ReError       \* unexpected )
                    ELSE ParseRe(p, i + 1, Append(toks, Tok("close", "", Head(open))),
                                 Tail(open), n)
               [] c \in {"*", "+", "?"} ->
                    IF toks = <<>> \/ last.k = "open"
                    THEN ReError                      \* missing argument to repetition
                    ELSE IF last.k \in {"close", "bol", "eol"} \/ last.q # "1"
                    THEN ReUnsupported
                    ELSE ParseRe(p, i + 1, [toks EXCEPT ![Len(toks)].q = c], open, n)
               [] c = "^" -> ParseRe(p, i + 1, Append(toks, Tok("bol", "", 0)), open, n)
               [] c = "$" -> ParseRe(p, i + 1, Append(toks, Tok("eol", "", 0)), open, n)
               [] c = "." -> ParseRe(p, i + 1, Append(toks, Tok("any", "", 0)), open, n)
               [] c = "\\" ->
                    IF i = Len(p) THEN ReError        \* trailing backslash
                    ELSE LET d == p[i + 1]
                         IN  CASE d = "d" -> ParseRe(p, i + 2, Append(toks, Tok("digit", "", 0)), open, n)
                               [] d = "w" -> ParseRe(p, i + 2, Append(toks, Tok("word", "", 0)), open, n)
                               [] d = "s" -> ParseRe(p, i + 2, Append(toks, Tok("space", "", 0)), open, n)
                               [] d \in {"q", "y", "e", "i", "j", "k", "m", "o", "h", "g", "c", "l"} ->
                                    ReError           \* invalid escape sequence
                               [] d \in Letters \cup Digits -> ReUnsupported
                               [] OTHER -> ParseRe(p, i + 2, Append(toks, Tok("lit", d, 0)), open, n)
               [] c = "[" ->
                    IF \A j \in (i + 1)..Len(p) : p[j] # "]"
                    THEN ReError                      \* missing closing ]
                    ELSE ReUnsupported
               [] c \in {"|", "{", "]"} -> ReUnsupported
               [] OTHER -> ParseRe(p, i + 1, Append(toks, Tok("lit", c, 0)), open, n)

\* regexp.Compile: st = "error" is a non-nil err
Compile(p) ==
    ParseRe(p, 1, <<>>, <<>>, 0)

\* whether character c is in the class of token t
InClass(c, t) ==
    CASE t.k = "lit" -> c = t.c
      [] t.k = "any" -> c # "\n"
      [] t.k = "digit" -> c \in Digits
      [] t.k = "word" -> c \in Letters \cup Digits \cup {"_"}
      [] t.k = "space" -> c \in {" ", "\t", "\n", "\r", "\f"}
      [] OTHER -> FALSE

\* how many characters of s from offset pos on are in the class of t
RECURSIVE RunLen(_, _, _)
RunLen(s, pos, t) ==
    IF pos < Len(s) /\ InClass(s[pos + 1], t) THEN 1 + RunLen(s, pos + 1, t) ELSE 0

NoMatch ==
    [ok |-> FALSE, b |-> -1, e |-> -1, caps |-> <<>>]

\* The leftmost-first match of tokens k.. at offset pos: what a backtracking
\* matcher finds, each greedy quantifier trying its longest run first.
\* caps[g] is the span of group g, <<-1, -1>> while unset.
RECURSIVE MatchHere(_, _, _, _, _)
MatchHere(toks, k, s, pos, caps) ==
    IF k > Len(toks) THEN [ok |-> TRUE, b |-> -1, e |-> pos, caps |-> caps]
    ELSE LET t == toks[k]
         IN  CASE t.k = "bol" ->
                    IF pos = 0 THEN MatchHere(toks, k + 1, s, pos, caps) ELSE NoMatch
               [] t.k = "eol" ->
                    IF pos = Len(s) THEN MatchHere(toks, k + 1, s, pos, caps) ELSE NoMatch
               [] t.k = "open" ->
                    MatchHere(toks, k + 1, s, pos, [caps EXCEPT ![t.g] = <<pos, -1>>])
               [] t.k = "close" ->
                    MatchHere(toks, k + 1, s, pos, [caps EXCEPT ![t.g] = <<caps[t.g][1], pos>>])
               [] OTHER ->
                    LET run == RunLen(s, pos, t)
                        lo == IF t.q \in {"1", "+"} THEN 1 ELSE 0
                        hi == IF t.q \in {"1", "?"} THEN Min(1, run) ELSE run
                        rest == [m \in lo..hi |-> MatchHere(toks, k + 1, s, pos + m, caps)]
                        good == {m \in lo..hi : rest[m].ok}
                    IN  IF t.q = "1"
                        THEN IF run >= 1 THEN MatchHere(toks, k + 1, s, pos + 1, caps)
                             ELSE NoMatch
                        ELSE IF good = {} THEN NoMatch
                        ELSE rest[CHOOSE m \in good : \A x \in good : x <= m]

\* The first match of re in s starting at or after offset pos (doExecute):
\* [ok, b, e, caps], the match being s[b:e].
RECURSIVE FindFrom(_, _, _)
FindFrom(re, s, pos) ==
    IF pos > Len(s) THEN NoMatch
    ELSE LET m == MatchHere(re.toks, 1, s, pos, [g \in 1..re.n |-> <<-1, -1>>])
         IN  IF m.ok THEN [m EXCEPT !.b = pos] ELSE FindFrom(re, s, pos + 1)

\* (*Regexp).MatchString
MatchString(re, s) ==
    FindFrom(re, s, 0).ok

\* how many leading characters of s are letters, digits or _ (extract's scan)
RECURSIVE NameLen(_)
NameLen(s) ==
    IF s # <<>> /\ Head(s) \in Letters \cup Digits \cup {"_"}
    THEN 1 + NameLen(Tail(s))
    ELSE 0

\* regexp's extract: the name at the head of str (the text after a $), as
\* name or {name}: [ok, num, rest]; num is -1 for a name that is no group number
Extract(str) ==
    LET brace == str # <<>> /\ Head(str) = "{"
        body == IF brace THEN Tail(str) ELSE str
        i == NameLen(body)
        name == Take(body, i)
        isNum == /\ \A j \in 1..i : name[j] \in Digits
                 /\ i <= 8
                 /\ ~(name[1] = "0" /\ i > 1)
        bad == [ok |-> FALSE, num |-> -1, rest |-> <<>>]
    IN  IF str = <<>> \/ i = 0 THEN bad
        ELSE IF brace /\ (i >= Len(body) \/ body[i + 1] # "}") THEN bad
        ELSE [ok |-> TRUE,
              num |-> IF isNum THEN DecimalValue(name, 0) ELSE -1,
              rest |-> Drop(body, IF brace THEN i + 1 ELSE i)]

\* (*Regexp).expand: template with $name, ${name} and $$ interpreted against
\* match m of text s; the patterns of this model name no group, so a name
\* that is not a number expands to nothing
RECURSIVE Expand(_, _, _)
Expand(template, s, m) ==
    IF template = <<>> THEN <<>>
    ELSE IF Head(template) # "$" THEN <<Head(template)>> \o Expand(Tail(template), s, m)
    ELSE LET after == Tail(template)
             x == Extract(after)
         IN  IF after # <<>> /\ Head(after) = "$"
             THEN <<"$">> \o Expand(Tail(after), s, m)
             ELSE IF ~x.ok THEN <<"$">> \o Expand(after, s, m)   \* malformed: raw text
             ELSE (IF x.num = 0 THEN SubSeq(s, m.b + 1, m.e)
                   ELSE IF x.num >= 1 /\ x.num <= Len(m.caps) /\ m.caps[x.num][1] >= 0
                   THEN SubSeq(s, m.caps[x.num][1] + 1, m.caps[x.num][2])
                   ELSE <<>>)
                  \o Expand(x.rest, s, m)

\* (*Regexp).replaceAll: the successive non-overlapping matches of re in src,
\* each replaced by the expanded repl, the unmatched text kept
RECURSIVE ReplaceFrom(_, _, _, _, _)
ReplaceFrom(re, src, repl, lastMatchEnd, searchPos) ==
    LET a == FindFrom(re, src, searchPos)
        width == IF searchPos < Len(src) THEN 1 ELSE 0
        next == IF searchPos + width > a.e THEN searchPos + width
                ELSE IF searchPos + 1 > a.e THEN searchPos + 1
                ELSE a.e
    IN  IF searchPos > Len(src) \/ ~a.ok
        THEN Drop(src, lastMatchEnd)
        ELSE SubSeq(src, lastMatchEnd + 1, a.b)
             \o (IF a.e > lastMatchEnd \/ a.b = 0 THEN Expand(repl, src, a) ELSE <<>>)
             \o ReplaceFrom(re, src, repl, a.e, next)

\* (*Regexp).ReplaceAllString
ReplaceAllString(re, src, repl) ==
    ReplaceFrom(re, src, repl, 0, 0)

(***************************************************************************)
(* parseRules, loadRedirectsFromDir and the sort of loadRules.             *)
(*                                                                         *)
(* A Redirect is [SourceHost, MatchType, SourcePathOrRegex,                *)
(* TargetURLFormat, StatusCode, Weight, Regex]; a map[string][]Redirect is *)
(* a function from its keys to sequences of Redirect.                      *)
(***************************************************************************)

\* the nil *regexp.Regexp
NilRegex ==
    [st |-> "nil", toks |-> <<>>, n |-> 0]

EmptyMap ==
    <<>>

\* m[host] = append(m[host], rules...)
MapAppend(m, host, rules) ==
    [h \in DOMAIN m \cup {host} |->
        IF h = host
        THEN (IF host \in DOMAIN m THEN m[host] ELSE <<>>) \o rules
        ELSE m[h]]

\* a loop body that takes every record with a blank first field for a blank line
CompileRecordSkipsBlank(record) ==
    LET host == TrimSpace(record[1])
        matchType == TrimSpace(record[2])
        pathOrRegex == TrimSpace(record[3])
        statusCode == Atoi(record[5]).v
        weight == Atoi(record[6]).v
        re == IF matchType = <<"r","e","g","e","x">> THEN Compile(pathOrRegex) ELSE NilRegex
        rule == [SourceHost |-> host,
                 MatchType |-> matchType,
                 SourcePathOrRegex |-> pathOrRegex,
                 TargetURLFormat |-> TrimSpace(record[4]),
                 StatusCode |-> statusCode,
                 Weight |-> weight,
                 Regex |-> re]
        none == [keep |-> FALSE, rule |-> <<>>]
    IN  IF \/ Len(record) = 0
           \/ (Len(record) = 1 /\ record[1] = <<>>)
           \/ TrimSpace(record[1]) = <<>>
           \/ HasPrefix(TrimSpace(record[1]), <<"#">>)
        THEN none
        ELSE IF Len(record) # 6 THEN none
        ELSE IF re.st = "error" THEN none
        ELSE [keep |-> TRUE, rule |-> rule]

\* The body of parseRules' loop for one record: whether the record is kept and
\* the rule it makes.  The csv reader yields no record without a field.
CompileRecord(record) ==
    LET host == TrimSpace(record[1])
        matchType == TrimSpace(record[2])
        pathOrRegex == TrimSpace(record[3])
        statusCode == Atoi(record[5]).v
        weight == Atoi(record[6]).v
        re == IF matchType = <<"r","e","g","e","x">> THEN Compile(pathOrRegex) ELSE NilRegex
        rule == [SourceHost |-> host,
                 MatchType |-> matchType,
                 SourcePathOrRegex |-> pathOrRegex,
                 TargetURLFormat |-> TrimSpace(record[4]),
                 StatusCode |-> statusCode,
                 Weight |-> weight,
                 Regex |-> re]
        none == [keep |-> FALSE, rule |-> <<>>]
    IN  IF \/ Len(record) = 0
           \/ (Len(record) = 1 /\ record[1] = <<>>)
           \/ HasPrefix(TrimSpace(record[1]), <<"#">>)
        THEN none
        ELSE IF Len(record) # 6 THEN none
        ELSE IF re.st = "error" THEN none
        ELSE [keep |-> TRUE, rule |-> rule]

RECURSIVE ParseRecords(_, _, _)
ParseRecords(records, rulesByHost, rulesCount) ==
    IF records = <<>> THEN [st |-> "ok", rules |-> rulesByHost, count |-> rulesCount]
    ELSE LET c == CompileRecord(Head(records))
         IN  IF c.keep
             THEN ParseRecords(Tail(records),
                               MapAppend(rulesByHost, c.rule.SourceHost, <<c.rule>>),
                               rulesCount + 1)
             ELSE ParseRecords(Tail(records), rulesByHost, rulesCount)

\* a parseRules whose loop starts at the first record
ParseRulesKeepsFirst(file) ==
    IF file.csv = "err" THEN [st |-> "err", rules |-> EmptyMap, count |-> 0]
    ELSE ParseRecords(file.records, EmptyMap, 0)

\* parseRules over a file [name, open, csv, records]: csv = "err" is the csv
\* reader's error, records what ReadAll returns.  records[1:] of no record at
\* all is a slice out of range: a panic.
ParseRules(file) ==
    IF file.csv = "err" THEN [st |-> "err", rules |-> EmptyMap, count |-> 0]
    ELSE IF Len(file.records) = 0 THEN [st |-> "panic", rules |-> EmptyMap, count |-> 0]
    ELSE ParseRecords(Tail(file.records), EmptyMap, 0)

LowerOf(c) ==
    CASE c = "A" -> "a" [] c = "B" -> "b" [] c = "C" -> "c" [] c = "D" -> "d" []
      c = "E" -> "e" [] c = "F" -> "f" [] c = "G" -> "g" [] c = "H" ->
      "h" [] c = "I" -> "i" [] c = "J" -> "j" [] c = "K" -> "k" [] c =
      "L" -> "l" [] c = "M" -> "m" [] c = "N" -> "n" [] c = "O" -> "o"
      [] c = "P" -> "p" [] c = "Q" -> "q" [] c = "R" -> "r" [] c = "S"
      -> "s" [] c = "T" -> "t" [] c = "U" -> "u" [] c = "V" -> "v" [] c
      = "W" -> "w" [] c = "X" -> "x" [] c = "Y" -> "y" [] c = "Z" -> "z"
      [] OTHER -> c

\* strings.ToLower
ToLower(s) ==
    [i \in 1..Len(s) |-> LowerOf(s[i])]

\* The key a range over map m visits first.  Go leaves the order of a
\* range over a map open; order, a sequence of keys, is the order it takes.
FirstKey(m, order) ==
    order[CHOOSE k \in 1..Len(order) :
              /\ order[k] \in DOMAIN m
              /\ \A j \in 1..(k - 1) : order[j] \notin DOMAIN m]

\* a loop that appends every slice under the key of its first iteration
RECURSIVE MergeIntoFirstKey(_, _, _)
MergeIntoFirstKey(aggregatedRules, rules, order) ==
    IF DOMAIN rules = {} THEN aggregatedRules
    ELSE LET host == FirstKey(rules, order)
         IN  MergeIntoFirstKey(MapAppend(aggregatedRules, order[1], rules[host]),
                               [h \in DOMAIN rules \ {host} |-> rules[h]], order)

\* a loop that assigns the slice of a file to the host, in place of what the
\* files before it gave
RECURSIVE MergeIntoOverwrites(_, _, _)
MergeIntoOverwrites(aggregatedRules, rules, order) ==
    IF DOMAIN rules = {} THEN aggregatedRules
    ELSE LET host == FirstKey(rules, order)
         IN  MergeIntoOverwrites(host :> rules[host] @@ aggregatedRules,
                                 [h \in DOMAIN rules \ {host} |-> rules[h]], order)

\* for host, hostRules := range rules { aggregated[host] = append(...) }
RECURSIVE MergeInto(_, _, _)
MergeInto(aggregatedRules, rules, order) ==
    IF DOMAIN rules = {} THEN aggregatedRules
    ELSE LET host == FirstKey(rules, order)
         IN  MergeInto(MapAppend(aggregatedRules, host, rules[host]),
                       [h \in DOMAIN rules \ {host} |-> rules[h]], order)

\* The entries of a tree, each with what parseRules returns for it.  WalkDir
\* reads parsed of the .csv files that open only.
ParseFiles(entries) ==
    <<>> \o [i \in DOMAIN entries |->
                [kind |-> entries[i].kind, name |-> entries[i].name, open |-> entries[i].open,
                 parsed |-> ParseRules(entries[i])]]

\* a callback that returns the error of os.Open and of parseRules to WalkDir
RECURSIVE WalkDirEscalates(_, _, _, _)
WalkDirEscalates(entries, aggregatedRules, totalRules, order) ==
    IF entries = <<>> THEN [st |-> "ok", rules |-> aggregatedRules, count |-> totalRules]
    ELSE LET d == Head(entries)
             parsed == d.parsed
         IN  IF d.kind = "baddir" THEN [st |-> "err", rules |-> EmptyMap, count |-> 0]
             ELSE IF d.kind = "file" /\ HasSuffix(ToLower(d.name), <<".","c","s","v">>)
             THEN IF ~d.open THEN [st |-> "err", rules |-> EmptyMap, count |-> 0]
                  ELSE IF parsed.st = "panic"
                  THEN [st |-> "panic", rules |-> EmptyMap, count |-> 0]
                  ELSE IF parsed.st = "err"
                  THEN [st |-> "err", rules |-> EmptyMap, count |-> 0]
                  ELSE WalkDirEscalates(Tail(entries),
                                        MergeInto(aggregatedRules, parsed.rules, order),
                                        totalRules + parsed.count, order)
             ELSE WalkDirEscalates(Tail(entries), aggregatedRules, totalRules, order)

\* filepath.WalkDir with the callback of loadRedirectsFromDir, over the
\* entries of the tree in walk order, parsed being rules, count, err :=
\* parseRules(file, path).  An entry of kind "baddir" is a
\* directory WalkDir cannot read: the callback returns its error and the walk
\* ends.  A file that does not open, or whose csv does not parse, is skipped.
\* loadRedirectsFromS3 has the same shape over the objects of a bucket: a
\* listing error ends the load, an object that cannot be fetched or parsed is
\* skipped.
RECURSIVE WalkDir(_, _, _, _)
WalkDir(entries, aggregatedRules, totalRules, order) ==
    IF entries = <<>> THEN [st |-> "ok", rules |-> aggregatedRules, count |-> totalRules]
    ELSE LET d == Head(entries)
             parsed == d.parsed
         IN  IF d.kind = "baddir" THEN [st |-> "err", rules |-> EmptyMap, count |-> 0]
             ELSE IF d.kind = "file" /\ HasSuffix(ToLower(d.name), <<".","c","s","v">>)
             THEN IF ~d.open THEN WalkDir(Tail(entries), aggregatedRules, totalRules, order)
                  ELSE IF parsed.st = "panic"
                  THEN [st |-> "panic", rules |-> EmptyMap, count |-> 0]
                  ELSE IF parsed.st = "err"
                  THEN WalkDir(Tail(entries), aggregatedRules, totalRules, order)
                  ELSE WalkDir(Tail(entries),
                               MergeInto(aggregatedRules, parsed.rules, order),
                               totalRules + parsed.count, order)
             ELSE WalkDir(Tail(entries), aggregatedRules, totalRules, order)

\* loadRedirectsFromDir: [st, rules, count]; st = "err" is the non-nil error
LoadRedirectsFromDir(entries, order) ==
    WalkDir(entries, EmptyMap, 0, order)

\* the keys the maps of a load over entries can hold: the first fields of
\* the records of 6 fields
HostsOf(entries) ==
    UNION {{TrimSpace(entries[i].records[j][1]) :
               j \in {k \in 1..Len(entries[i].records) : Len(entries[i].records[k]) = 6}} :
           i \in DOMAIN entries}

\* the orders a range over a map of keys S can take
Orders(S) ==
    {o \in [1..Cardinality(S) -> S] : \A i, j \in DOMAIN o : o[i] = o[j] => i = j}

\* a comparison the wrong way round
LessAscending(a, b) ==
    a.Weight < b.Weight

\* less of loadRules' sort.Slice
Less(a, b) ==
    a.Weight > b.Weight

\* sort.Slice on a slice of at most 12 elements is an insertion sort: each
\* element moves left past the elements it is Less than.
RECURSIVE InsertLeft(_, _)
InsertLeft(sorted, x) ==
    IF sorted # <<>> /\ Less(x, sorted[Len(sorted)])
    THEN Append(InsertLeft(Take(sorted, Len(sorted) - 1), x), sorted[Len(sorted)])
    ELSE Append(sorted, x)

RECURSIVE InsertionSort(_, _)
InsertionSort(sorted, rest) ==
    IF rest = <<>> THEN sorted
    ELSE InsertionSort(InsertLeft(sorted, Head(rest)), Tail(rest))

SortSlice(rules) ==
    InsertionSort(<<>>, rules)

\* a loadRules that leaves the slices as loadRedirectsFromDir returned them
SortAllNone(m) ==
    m

\* for host := range tempRedirects { sort.Slice(tempRedirects[host], ...) }:
\* each iteration sorts the slice of its own key, whatever the order
SortAll(m) ==
    [h \in DOMAIN m |-> SortSlice(m[h])]

(***************************************************************************)
(* redirectHandler's pure parts.                                           *)
(***************************************************************************)

\* host := r.Host; if i := strings.LastIndex(host, ":"); i != -1 { host = host[:i] }
StripPort(host) ==
    LET i == LastIndex(host, <<":">>)
    IN  IF i # -1 THEN Take(host, i) ELSE host

\* a normalization that takes one slash off
NormalizeOneSlash(p) ==
    IF Len(p) > 1 /\ HasSuffix(p, <<"/">>) THEN Take(p, Len(p) - 1) ELSE p

\* the trailing-slash normalization the handler applies to the request path
\* and to the path of an exact rule
NormalizeSlash(p) ==
    IF Len(p) > 1 /\ HasSuffix(p, <<"/">>) THEN TrimRight(p, <<"/">>) ELSE p

\* a loop body that takes every match type but "regex" for "exact"
RuleTargetElseExact(rule, path) ==
    IF rule.MatchType # <<"r","e","g","e","x">>
    THEN IF NormalizeSlash(rule.SourcePathOrRegex) = NormalizeSlash(path)
         THEN rule.TargetURLFormat
         ELSE <<>>
    ELSE IF rule.Regex.st # "nil" /\ MatchString(rule.Regex, path)
    THEN ReplaceAllString(rule.Regex, path,
                          ReplaceAll(rule.TargetURLFormat, <<"$","p","a","t","h">>, path))
    ELSE <<>>

\* a loop body that expands the capture groups before it replaces $path
RuleTargetGroupsFirst(rule, path) ==
    IF rule.MatchType = <<"e","x","a","c","t">>
    THEN IF NormalizeSlash(rule.SourcePathOrRegex) = NormalizeSlash(path)
         THEN rule.TargetURLFormat
         ELSE <<>>
    ELSE IF /\ rule.MatchType = <<"r","e","g","e","x">>
            /\ rule.Regex.st # "nil"
            /\ MatchString(rule.Regex, path)
    THEN ReplaceAll(ReplaceAllString(rule.Regex, path, rule.TargetURLFormat),
                    <<"$","p","a","t","h">>, path)
    ELSE <<>>

\* a loop body that tests the pattern against normalizedPath and puts
\* normalizedPath in the place of $path
RuleTargetNormalized(rule, path) ==
    IF rule.MatchType = <<"e","x","a","c","t">>
    THEN IF NormalizeSlash(rule.SourcePathOrRegex) = NormalizeSlash(path)
         THEN rule.TargetURLFormat
         ELSE <<>>
    ELSE IF /\ rule.MatchType = <<"r","e","g","e","x">>
            /\ rule.Regex.st # "nil"
            /\ MatchString(rule.Regex, NormalizeSlash(path))
    THEN ReplaceAllString(rule.Regex, NormalizeSlash(path),
                          ReplaceAll(rule.TargetURLFormat, <<"$","p","a","t","h">>,
                                     NormalizeSlash(path)))
    ELSE <<>>

\* targetURL of one pass of the handler's loop: "" when the rule does not apply
RuleTarget(rule, path) ==
    IF rule.MatchType = <<"e","x","a","c","t">>
    THEN IF NormalizeSlash(rule.SourcePathOrRegex) = NormalizeSlash(path)
         THEN rule.TargetURLFormat
         ELSE <<>>
    ELSE IF /\ rule.MatchType = <<"r","e","g","e","x">>
            /\ rule.Regex.st # "nil"
            /\ MatchString(rule.Regex, path)
    THEN ReplaceAllString(rule.Regex, path,
                          ReplaceAll(rule.TargetURLFormat, <<"$","p","a","t","h">>, path))
    ELSE <<>>

NoResult ==
    [kind |-> "none", target |-> <<>>, status |-> 0, rule |-> 0, evaluated |-> 0]

NotFound(evaluated) ==
    [kind |-> "notfound", target |-> <<>>, status |-> 0, rule |-> 0, evaluated |-> evaluated]

\* a loop that does not return at the first target: the last one wins
RECURSIVE MatchLoopLast(_, _, _)
MatchLoopLast(rules, path, i) ==
    IF i > Len(rules) THEN NotFound(Len(rules))
    ELSE LET targetURL == RuleTarget(rules[i], path)
             later == MatchLoopLast(rules, path, i + 1)
         IN  IF later.kind = "redirect" THEN later
             ELSE IF targetURL # <<>>
             THEN [kind |-> "redirect", target |-> targetURL,
                   status |-> rules[i].StatusCode, rule |-> i, evaluated |-> Len(rules)]
             ELSE later

\* for _, rule := range rules: the first rule from index i on with a target
\* redirects; rule is its index, evaluated the number of rules looked at
RECURSIVE MatchLoop(_, _, _)
MatchLoop(rules, path, i) ==
    IF i > Len(rules) THEN NotFound(Len(rules))
    ELSE LET targetURL == RuleTarget(rules[i], path)
         IN  IF targetURL # <<>>
             THEN [kind |-> "redirect", target |-> targetURL,
                   status |-> rules[i].StatusCode, rule |-> i, evaluated |-> i]
             ELSE MatchLoop(rules, path, i + 1)

\* a lookup that falls back to some host of the map
LookupFallback(m, host) ==
    IF host \in DOMAIN m
    THEN [key |-> host, hostExists |-> TRUE]
    ELSE IF DOMAIN m # {}
    THEN [key |-> CHOOSE h \in DOMAIN m : TRUE, hostExists |-> TRUE]
    ELSE [key |-> "", hostExists |-> FALSE]

\* rules, hostExists := redirectMap[host]: rules is the slice the map holds
\* for key, the nil slice when the map has no such key
Lookup(m, host) ==
    IF host \in DOMAIN m
    THEN [key |-> host, hostExists |-> TRUE]
    ELSE [key |-> "", hostExists |-> FALSE]

\* healthCheckHandler's loop: redirectCount += len(rules) over the map
RECURSIVE RedirectCount(_)
RedirectCount(m) ==
    IF DOMAIN m = {} THEN 0
    ELSE LET h == CHOOSE x \in DOMAIN m : TRUE
         IN  Len(m[h]) + RedirectCount([x \in DOMAIN m \ {h} |-> m[x]])

(***************************************************************************)
(* The rule files and the requests of the model.  The state holds a Go     *)
(* string (a field of a rule file, of a Redirect or of a request) as a     *)
(* TLA+ string; Chars gives its characters and Intern is the inverse.      *)
(***************************************************************************)

\* BEGIN-DATA
RowHeader ==
    <<"source_host", "match_type", "source_path_or_regex", "target_url_format",
      "status_code", "weight">>

\* the rows of redirects/example.csv
RowProducts ==
    <<"old-site.com", "regex", "^/products/(\\d+)", "https://new-site.com/items/$1", "301", "200">>

RowBlog ==
    <<"old-site.com", "regex", "^/blog/.*", "https://blog.new-site.com$path", "301", "150">>

RowAbout ==
    <<"old-site.com", "exact", "/about-us", "https://new-site.com/company/about", "301", "100">>

RowCatchAll ==
    <<"old-site.com", "regex", "^/.*", "https://archive.new-site.com/old-site$path", "301", "50">>

RowHome ==
    <<"another-domain.net", "exact", "/", "https://another-new-site.com", "302", "100">>

RowSupport ==
    <<"another-domain.net", "regex", "^/support/.*", "https://help.another-new-site.com$path", "301", "50">>

\* short rows of the same shapes, for the runs that interleave the handlers
\* with the reloads
RowP ==
    <<"a.io", "regex", "^/p/(\\d+)", "//n/$1", "301", "200">>

RowU ==
    <<"a.io", "exact", "/u", "//n/u", "301", "100">>

RowAll ==
    <<"a.io", "regex", "^/.*", "//o$path", "301", "50">>

RowUTie ==
    <<"a.io", "exact", "/u/", "//n/t", "302", "50">>

RowB ==
    <<"b.io", "exact", "/", "//m", "302", "100">>

RowS ==
    <<"b.io", "regex", "^/s/.*", "//h$path", "301", "50">>

\* rows parseRules drops
RowFiveFields ==
    <<"a.io", "exact", "/x", "//n/x", "301">>

RowBadRegex ==
    <<"a.io", "regex", "^/b/(\\d+", "//n/$1", "301", "300">>

\* a record of 6 fields whose first field is blank: a rule of the host ""
RowBlankHost ==
    <<" ", "exact", "/u", "//n/b", "301", "100">>

\* a record of 6 fields whose first field, trimmed, begins with #
RowHashSix ==
    <<" #a.io", "exact", "/u", "//n/c", "301", "100">>

\* the record of a line that holds "" alone
RowBlankOne ==
    <<"">>

\* a status code that is no number and a weight with a space before it
RowBadNumbers ==
    <<"a.io", "exact", "/s", "//n/s", "30x", " 7">>

\* a weight beyond every int
RowHugeWeight ==
    <<"a.io", "exact", "/h", "//n/h", "301", "99999999999999999999">>

RowComment ==
    <<"# a.io rules">>

\* An entry of the source tree, in walk order: a file [name, open, csv, rows]
\* (open: os.Open succeeds; csv: "ok", or "err" when ReadAll fails; rows:
\* the records ReadAll returns), or a directory that cannot be read.
File(name, rows) ==
    [kind |-> "file", name |-> name, open |-> TRUE, csv |-> "ok", rows |-> rows]

UnreadableFile(name) ==
    [kind |-> "file", name |-> name, open |-> FALSE, csv |-> "ok", rows |-> <<>>]

BadCsvFile(name) ==
    [kind |-> "file", name |-> name, open |-> TRUE, csv |-> "err", rows |-> <<>>]

BadDir ==
    [kind |-> "baddir", name |-> "", open |-> FALSE, csv |-> "ok", rows |-> <<>>]

\* The entries of a tree are in the order filepath.WalkDir visits them:
\* lexical, by byte, so B.CSV comes before a.csv.
\*
\* two hosts, five rules: the a.io rows out of weight order and in two files,
\* one of them holding rows of both hosts, with a five-field row, a comment
\* and a pattern that does not compile among them
DirTwoHosts ==
    <<File("B.CSV", <<RowHeader, RowS, RowAll, RowB>>),
      File("a.csv", <<RowHeader, RowComment, RowU, RowFiveFields, RowP, RowBadRegex>>)>>

\* a.io alone, its rules in two files, beside a file that is no csv, a csv
\* that does not open and one that does not parse
DirOneHost ==
    <<File("a.csv", <<RowHeader, RowAll, RowU>>),
      UnreadableFile("c.csv"),
      BadCsvFile("d.csv"),
      File("e.csv", <<RowHeader, RowUTie>>),
      File("notes.txt", <<RowHeader, RowB>>)>>

\* a tree with a directory that cannot be listed
DirUnlistable ==
    <<File("a.csv", <<RowHeader, RowB>>), BadDir>>

\* a tree with a csv file of no record at all
DirEmptyFile ==
    <<File("B.CSV", <<>>), File("a.csv", <<RowHeader, RowB>>)>>

\* two files of a.io with a rule of weight 50 in each, and the same two
\* files with their names exchanged, so that WalkDir reads them in the other
\* order
DirTie ==
    <<File("a.csv", <<RowHeader, RowAll>>),
      File("e.csv", <<RowHeader, RowUTie, RowP>>)>>

DirTieSwapped ==
    <<File("a.csv", <<RowHeader, RowUTie, RowP>>),
      File("e.csv", <<RowHeader, RowAll>>)>>

\* rows for the handler's branches: a match type that is neither "exact" nor
\* "regex", a path with a trailing slash, the root, an empty target above a
\* pattern for the same path
RowPrefix ==
    <<"t.io", "prefix", "/pre", "//t/pre", "301", "300">>

RowSlash ==
    <<"t.io", "exact", "/about-us/", "//t/a", "301", "250">>

RowRoot ==
    <<"t.io", "exact", "/", "//t/r", "302", "240">>

RowNoTarget ==
    <<"t.io", "exact", "/e", "", "301", "230">>

RowE ==
    <<"t.io", "regex", "^/e", "//t/e2", "307", "10">>

\* rows for the path a pattern rule is tested against: a catch-all written
\* first, a pattern anchored at its end and a template that is $path alone
RowXAll ==
    <<"x.io", "regex", "^/.*", "//x/o", "307", "5">>

RowXEnd ==
    <<"x.io", "regex", "^/x$", "//x/a$path", "301", "50">>

RowXDir ==
    <<"x.io", "regex", "^/d/.*", "//x$path", "302", "40">>

DirPaths ==
    <<File("x.csv", <<RowHeader, RowXAll, RowXEnd, RowXDir>>)>>

\* rows for the status code of an answer: one that is no number, one that is
\* a number and no redirect code, and a redirect code
RowNoCode ==
    <<"s.io", "exact", "/s", "//n/s", "30x", "30">>

RowOkCode ==
    <<"s.io", "exact", "/ok", "//n/ok", "200", "20">>

RowSeeOther ==
    <<"s.io", "exact", "/so", "//n/so", "303", "10">>

DirCodes ==
    <<File("s.csv", <<RowHeader, RowNoCode, RowOkCode, RowSeeOther>>)>>

\* redirects/example.csv
DirExample ==
    <<File("example.csv", <<RowHeader, RowComment, RowProducts, RowBlog, RowAbout,
                            RowCatchAll, RowComment, RowHome, RowSupport>>)>>

DirMatch ==
    DirExample \o <<File("t.csv", <<RowHeader, RowE, RowRoot, RowPrefix, RowNoTarget, RowSlash>>)>>

\* the rows the files of the "parse" world are made of
ParseRows ==
    {RowHeader, RowU, RowP, RowUTie, RowB, RowFiveFields, RowBadRegex, RowComment,
     RowBlankHost, RowHashSix, RowBlankOne, RowBadNumbers, RowHugeWeight}

\* how many records a file of the "parse" world has at most
MaxRows ==
    3

RECURSIVE SeqsUpTo(_, _)
SeqsUpTo(S, n) ==
    IF n = 0 THEN {<<>>}
    ELSE LET shorter == SeqsUpTo(S, n - 1)
         IN  shorter \cup {Append(q, x) : q \in {r \in shorter : Len(r) = n - 1}, x \in S}

\* the targets the claims expect of the example rules
TargetBlogPost ==
    "https://blog.new-site.com/blog/my-post"

TargetItem ==
    "https://new-site.com/items/123"

\* the targets the claims expect of the x.io rules
TargetX ==
    "//x/a/x"

TargetD ==
    "//x/d/a//"

Request(host, path) ==
    [host |-> host, path |-> path]

\* the trees and the requests of each world
Sources(world) ==
    CASE world = "system" -> {DirTwoHosts, DirOneHost, DirUnlistable, DirEmptyFile}
      [] world = "match" -> {DirExample, DirMatch, DirPaths, DirCodes}
      [] world = "parse" -> {<<File("a.csv", rows)>> : rows \in SeqsUpTo(ParseRows, MaxRows)}
      [] world = "order" -> {DirTie, DirTieSwapped, DirTwoHosts}

Requests(world) ==
    CASE world = "system" ->
           {Request("a.io:80", "/p/1"), Request("b.io", "/"), Request("b.io", "/hz")}
      [] world = "match" ->
           {Request("old-site.com", "/products/123"), Request("old-site.com", "/blog/my-post"),
            Request("old-site.com", "/about-us"), Request("old-site.com:8080", "/about-us/"),
            Request("old-site.com", "/about-us//"), Request("old-site.com", "/x"),
            Request("another-domain.net", "/"), Request("another-domain.net", "/support/a"),
            Request("another-domain.net", "/none"),
            Request("t.io", "/pre"), Request("t.io", "/about-us"), Request("t.io", "/about-us/"),
            Request("t.io", "/"), Request("t.io", "//"), Request("t.io", "/e"),
            Request("t.io", "/zz"),
            Request("x.io", "/x"), Request("x.io", "/x/"), Request("x.io", "/d/a//"),
            Request("x.io", "/d/$1"),
            Request("s.io", "/s"), Request("s.io", "/ok"), Request("s.io", "/so")}
      [] world = "parse" -> {}
      [] world = "order" -> {Request("a.io", "/u/")}

\* main's Options, as far as the model reads them
Options(poll, healthPath, healthDomain) ==
    [PollInterval |-> poll, HealthCheckPath |-> healthPath, HealthCheckDomain |-> healthDomain]

OptionsOf(world) ==
    CASE world = "system" ->
           {Options(1, "/hz", "b.io"), Options(0, "/hz", "a.io"),
            Options(0, "/hz", ""), Options(0, "", "")}
      [] world = "order" -> {Options(1, "", "")}
      [] OTHER -> {Options(0, "", "")}
\* END-DATA

CharsTable ==
    ("source_host" :>
        <<"s","o","u","r","c","e","_","h","o","s","t">>)
    @@ ("match_type" :>
        <<"m","a","t","c","h","_","t","y","p","e">>)
    @@ ("source_path_or_regex" :>
        <<"s","o","u","r","c","e","_","p","a","t","h","_","o","r","_","r","e","g","e","x">>)
    @@ ("target_url_format" :>
        <<"t","a","r","g","e","t","_","u","r","l","_","f","o","r","m","a","t">>)
    @@ ("status_code" :>
        <<"s","t","a","t","u","s","_","c","o","d","e">>)
    @@ ("weight" :>
        <<"w","e","i","g","h","t">>)
    @@ ("old-site.com" :>
        <<"o","l","d","-","s","i","t","e",".","c","o","m">>)
    @@ ("regex" :>
        <<"r","e","g","e","x">>)
    @@ ("^/products/(\\d+)" :>
        <<"^","/","p","r","o","d","u","c","t","s","/","(","\\","d","+",")">>)
    @@ ("https://new-site.com/items/$1" :>
        <<"h","t","t","p","s",":","/","/","n","e","w","-","s","i","t","e",".","c","o","m","/","i","t","e","m","s","/","$","1">>)
    @@ ("301" :>
        <<"3","0","1">>)
    @@ ("200" :>
        <<"2","0","0">>)
    @@ ("^/blog/.*" :>
        <<"^","/","b","l","o","g","/",".","*">>)
    @@ ("https://blog.new-site.com$path" :>
        <<"h","t","t","p","s",":","/","/","b","l","o","g",".","n","e","w","-","s","i","t","e",".","c","o","m","$","p","a","t","h">>)
    @@ ("150" :>
        <<"1","5","0">>)
    @@ ("exact" :>
        <<"e","x","a","c","t">>)
    @@ ("/about-us" :>
        <<"/","a","b","o","u","t","-","u","s">>)
    @@ ("https://new-site.com/company/about" :>
        <<"h","t","t","p","s",":","/","/","n","e","w","-","s","i","t","e",".","c","o","m","/","c","o","m","p","a","n","y","/","a","b","o","u","t">>)
    @@ ("100" :>
        <<"1","0","0">>)
    @@ ("^/.*" :>
        <<"^","/",".","*">>)
    @@ ("https://archive.new-site.com/old-site$path" :>
        <<"h","t","t","p","s",":","/","/","a","r","c","h","i","v","e",".","n","e","w","-","s","i","t","e",".","c","o","m","/","o","l","d","-","s","i","t","e","$","p","a","t","h">>)
    @@ ("50" :>
        <<"5","0">>)
    @@ ("another-domain.net" :>
        <<"a","n","o","t","h","e","r","-","d","o","m","a","i","n",".","n","e","t">>)
    @@ ("/" :>
        <<"/">>)
    @@ ("https://another-new-site.com" :>
        <<"h","t","t","p","s",":","/","/","a","n","o","t","h","e","r","-","n","e","w","-","s","i","t","e",".","c","o","m">>)
    @@ ("302" :>
        <<"3","0","2">>)
    @@ ("^/support/.*" :>
        <<"^","/","s","u","p","p","o","r","t","/",".","*">>)
    @@ ("https://help.another-new-site.com$path" :>
        <<"h","t","t","p","s",":","/","/","h","e","l","p",".","a","n","o","t","h","e","r","-","n","e","w","-","s","i","t","e",".","c","o","m","$","p","a","t","h">>)
    @@ ("a.io" :>
        <<"a",".","i","o">>)
    @@ ("^/p/(\\d+)" :>
        <<"^","/","p","/","(","\\","d","+",")">>)
    @@ ("//n/$1" :>
        <<"/","/","n","/","$","1">>)
    @@ ("/u" :>
        <<"/","u">>)
    @@ ("//n/u" :>
        <<"/","/","n","/","u">>)
    @@ ("//o$path" :>
        <<"/","/","o","$","p","a","t","h">>)
    @@ ("/u/" :>
        <<"/","u","/">>)
    @@ ("//n/t" :>
        <<"/","/","n","/","t">>)
    @@ ("b.io" :>
        <<"b",".","i","o">>)
    @@ ("//m" :>
        <<"/","/","m">>)
    @@ ("^/s/.*" :>
        <<"^","/","s","/",".","*">>)
    @@ ("//h$path" :>
        <<"/","/","h","$","p","a","t","h">>)
    @@ ("/x" :>
        <<"/","x">>)
    @@ ("//n/x" :>
        <<"/","/","n","/","x">>)
    @@ ("^/b/(\\d+" :>
        <<"^","/","b","/","(","\\","d","+">>)
    @@ ("300" :>
        <<"3","0","0">>)
    @@ (" " :>
        <<" ">>)
    @@ ("//n/b" :>
        <<"/","/","n","/","b">>)
    @@ (" #a.io" :>
        <<" ","#","a",".","i","o">>)
    @@ ("//n/c" :>
        <<"/","/","n","/","c">>)
    @@ ("" :>
        <<>>)
    @@ ("/s" :>
        <<"/","s">>)
    @@ ("//n/s" :>
        <<"/","/","n","/","s">>)
    @@ ("30x" :>
        <<"3","0","x">>)
    @@ (" 7" :>
        <<" ","7">>)
    @@ ("/h" :>
        <<"/","h">>)
    @@ ("//n/h" :>
        <<"/","/","n","/","h">>)
    @@ ("99999999999999999999" :>
        <<"9","9","9","9","9","9","9","9","9","9","9","9","9","9","9","9","9","9","9","9">>)
    @@ ("# a.io rules" :>
        <<"#"," ","a",".","i","o"," ","r","u","l","e","s">>)
    @@ ("B.CSV" :>
        <<"B",".","C","S","V">>)
    @@ ("a.csv" :>
        <<"a",".","c","s","v">>)
    @@ ("c.csv" :>
        <<"c",".","c","s","v">>)
    @@ ("d.csv" :>
        <<"d",".","c","s","v">>)
    @@ ("e.csv" :>
        <<"e",".","c","s","v">>)
    @@ ("notes.txt" :>
        <<"n","o","t","e","s",".","t","x","t">>)
    @@ ("t.io" :>
        <<"t",".","i","o">>)
    @@ ("prefix" :>
        <<"p","r","e","f","i","x">>)
    @@ ("/pre" :>
        <<"/","p","r","e">>)
    @@ ("//t/pre" :>
        <<"/","/","t","/","p","r","e">>)
    @@ ("/about-us/" :>
        <<"/","a","b","o","u","t","-","u","s","/">>)
    @@ ("//t/a" :>
        <<"/","/","t","/","a">>)
    @@ ("250" :>
        <<"2","5","0">>)
    @@ ("//t/r" :>
        <<"/","/","t","/","r">>)
    @@ ("240" :>
        <<"2","4","0">>)
    @@ ("/e" :>
        <<"/","e">>)
    @@ ("230" :>
        <<"2","3","0">>)
    @@ ("^/e" :>
        <<"^","/","e">>)
    @@ ("//t/e2" :>
        <<"/","/","t","/","e","2">>)
    @@ ("307" :>
        <<"3","0","7">>)
    @@ ("10" :>
        <<"1","0">>)
    @@ ("x.io" :>
        <<"x",".","i","o">>)
    @@ ("//x/o" :>
        <<"/","/","x","/","o">>)
    @@ ("5" :>
        <<"5">>)
    @@ ("^/x$" :>
        <<"^","/","x","$">>)
    @@ ("//x/a$path" :>
        <<"/","/","x","/","a","$","p","a","t","h">>)
    @@ ("^/d/.*" :>
        <<"^","/","d","/",".","*">>)
    @@ ("//x$path" :>
        <<"/","/","x","$","p","a","t","h">>)
    @@ ("40" :>
        <<"4","0">>)
    @@ ("x.csv" :>
        <<"x",".","c","s","v">>)
    @@ ("s.io" :>
        <<"s",".","i","o">>)
    @@ ("30" :>
        <<"3","0">>)
    @@ ("/ok" :>
        <<"/","o","k">>)
    @@ ("//n/ok" :>
        <<"/","/","n","/","o","k">>)
    @@ ("20" :>
        <<"2","0">>)
    @@ ("/so" :>
        <<"/","s","o">>)
    @@ ("//n/so" :>
        <<"/","/","n","/","s","o">>)
    @@ ("303" :>
        <<"3","0","3">>)
    @@ ("s.csv" :>
        <<"s",".","c","s","v">>)
    @@ ("example.csv" :>
        <<"e","x","a","m","p","l","e",".","c","s","v">>)
    @@ ("t.csv" :>
        <<"t",".","c","s","v">>)
    @@ ("https://blog.new-site.com/blog/my-post" :>
        <<"h","t","t","p","s",":","/","/","b","l","o","g",".","n","e","w","-","s","i","t","e",".","c","o","m","/","b","l","o","g","/","m","y","-","p","o","s","t">>)
    @@ ("https://new-site.com/items/123" :>
        <<"h","t","t","p","s",":","/","/","n","e","w","-","s","i","t","e",".","c","o","m","/","i","t","e","m","s","/","1","2","3">>)
    @@ ("//x/a/x" :>
        <<"/","/","x","/","a","/","x">>)
    @@ ("//x/d/a//" :>
        <<"/","/","x","/","d","/","a","/","/">>)
    @@ ("order" :>
        <<"o","r","d","e","r">>)
    @@ ("a.io:80" :>
        <<"a",".","i","o",":","8","0">>)
    @@ ("/p/1" :>
        <<"/","p","/","1">>)
    @@ ("/hz" :>
        <<"/","h","z">>)
    @@ ("/products/123" :>
        <<"/","p","r","o","d","u","c","t","s","/","1","2","3">>)
    @@ ("/blog/my-post" :>
        <<"/","b","l","o","g","/","m","y","-","p","o","s","t">>)
    @@ ("old-site.com:8080" :>
        <<"o","l","d","-","s","i","t","e",".","c","o","m",":","8","0","8","0">>)
    @@ ("/about-us//" :>
        <<"/","a","b","o","u","t","-","u","s","/","/">>)
    @@ ("/support/a" :>
        <<"/","s","u","p","p","o","r","t","/","a">>)
    @@ ("/none" :>
        <<"/","n","o","n","e">>)
    @@ ("//" :>
        <<"/","/">>)
    @@ ("/zz" :>
        <<"/","z","z">>)
    @@ ("/x/" :>
        <<"/","x","/">>)
    @@ ("/d/a//" :>
        <<"/","d","/","a","/","/">>)
    @@ ("/d/$1" :>
        <<"/","d","/","$","1">>)

\* the strings of the state
Strings ==
    DOMAIN CharsTable

\* the characters of a string of the state
Chars(t) ==
    CharsTable[t]

\* END-CHARS

\* the string of the state whose characters are cs
InternTable ==
    [cs \in {Chars(t) : t \in Strings} |-> CHOOSE t \in Strings : Chars(t) = cs]

Intern(cs) ==
    InternTable[cs]

\* A Redirect as the state holds it: its strings interned, and of its
\* compiled pattern, a function of SourcePathOrRegex, only whether it is nil.
InternRule(rule) ==
    [SourceHost |-> Intern(rule.SourceHost),
     MatchType |-> Intern(rule.MatchType),
     SourcePathOrRegex |-> Intern(rule.SourcePathOrRegex),
     TargetURLFormat |-> Intern(rule.TargetURLFormat),
     StatusCode |-> rule.StatusCode,
     Weight |-> rule.Weight,
     Regex |-> rule.Regex.st]

\* regexp.Compile of each string of the state
Compiled ==
    [t \in Strings |-> Compile(Chars(t))]

CharsRule(r) ==
    [SourceHost |-> Chars(r.SourceHost),
     MatchType |-> Chars(r.MatchType),
     SourcePathOrRegex |-> Chars(r.SourcePathOrRegex),
     TargetURLFormat |-> Chars(r.TargetURLFormat),
     StatusCode |-> r.StatusCode,
     Weight |-> r.Weight,
     Regex |-> IF r.Regex = "nil" THEN NilRegex ELSE Compiled[r.SourcePathOrRegex]]

\* a map[string][]Redirect as the state holds it
InternMap(m) ==
    [t \in {Intern(h) : h \in DOMAIN m} |->
        [i \in DOMAIN m[Chars(t)] |-> InternRule(m[Chars(t)][i])]]

CharsRules(rules) ==
    [i \in DOMAIN rules |-> CharsRule(rules[i])]

\* the tree as loadRedirectsFromDir reads it
Tree(entries) ==
    [i \in DOMAIN entries |->
        [kind |-> entries[i].kind,
         name |-> Chars(entries[i].name),
         open |-> entries[i].open,
         csv |-> entries[i].csv,
         records |-> [j \in DOMAIN entries[i].rows |->
                        [k \in DOMAIN entries[i].rows[j] |-> Chars(entries[i].rows[j][k])]]]]

(***************************************************************************)
(* The process: main and its reload goroutine, the handlers of the         *)
(* requests net/http runs concurrently, redirectMap and mapMutex.          *)
(***************************************************************************)

\* how many requests net/http handles at once in the model
MaxReq ==
    1

VARIABLES
    world,       \* which trees and requests the run draws from
    opts,        \* the parsed Options
    source,      \* the tree at opts.CsvSrc
    heap,        \* the maps that are allocated: id -> [m, pub, src, ever], m
                 \* the map[string][]Redirect; the rest is history: pub,
                 \* loadRules has assigned the map to redirectMap; src, the
                 \* content it was read from; ever, the keys of the maps
                 \* assigned to redirectMap up to this one
    redirectMap, \* the global: the id of a map
    mapMutex,    \* [w: the write lock is held, r: the holders of the read lock]
    proc,        \* "boot", "serving", "exited" (log.Fatalf) or "crashed" (panic)
    load,        \* the loadRules call in progress: [pc, tempRedirects, totalRules]
    lastLoad,    \* history: how the last loadRules call ended: "none", "ok", "err"
    reqs         \* the handler of each request slot

vars ==
    <<world, opts, source, heap, redirectMap, mapMutex, proc, load, lastLoad, reqs>>

\* the request slots: net/http runs each request's handler in a goroutine
Tasks ==
    1..MaxReq

NoRef ==
    [m |-> 0, h |-> ""]

IdleLoad ==
    [pc |-> "idle", tempRedirects |-> 0, totalRules |-> 0]

\* A request slot.  rules is the handler's slice: the array of key h in map
\* m.  seenPub and seenShape are history: the pub of the map the handler read
\* under the read lock, and the length of the slice of each of its keys, at the
\* handler's first read.  A slot that has answered keeps the answer (pc =
\* "done") until its next request.
IdleTask ==
    [pc |-> "idle", handler |-> "none", host |-> "", path |-> "",
     rules |-> NoRef, hostExists |-> FALSE,
     seenPub |-> FALSE, seenShape |-> <<>>,
     domainCount |-> 0, redirectCount |-> 0, res |-> NoResult]

\* the keys of map m and the length of the slice of each
Shape(m) ==
    [h \in DOMAIN m |-> Len(m[h])]

\* the smallest id that names no map
NewId(h) ==
    CHOOSE n \in 1..(Cardinality(DOMAIN h) + 1) :
        /\ n \notin DOMAIN h
        /\ \A k \in 1..(n - 1) : k \in DOMAIN h

\* the maps some variable still refers to; the others are garbage
Live(rm, ld, rq) ==
    ({rm, ld.tempRedirects} \cup {rq[i].rules.m : i \in DOMAIN rq}) \ {0}

Collect(h, live) ==
    [id \in DOMAIN h \cap live |-> h[id]]

Running ==
    proc \in {"boot", "serving"}

\* the routing of main's http.HandleFunc("/", ...)
Route(healthCheckPath, healthCheckDomain, host, path) ==
    IF healthCheckPath # <<>> /\ path = healthCheckPath
    THEN IF healthCheckDomain # <<>>
         THEN IF StripPort(host) = healthCheckDomain THEN "health" ELSE "redirect"
         ELSE "health"
    ELSE "redirect"

\* a ticker that runs each loadRules in a goroutine of its own, so that a call
\* begins while the call before it is in progress
LoadStartOverlaps ==
    /\ proc = "boot" \/ (proc = "serving" /\ opts.PollInterval > 0)
    /\ load.pc # "fetch"
    /\ load' = [load EXCEPT !.pc = "fetch"]
    /\ UNCHANGED <<world, opts, source, heap, redirectMap, mapMutex, proc, lastLoad, reqs>>

\* a loadRules that takes the write lock first and holds it to its end
LoadStartLocks ==
    /\ load.pc = "idle"
    /\ proc = "boot" \/ (proc = "serving" /\ opts.PollInterval > 0)
    /\ ~mapMutex.w /\ mapMutex.r = 0
    /\ mapMutex' = [mapMutex EXCEPT !.w = TRUE]
    /\ load' = [load EXCEPT !.pc = "fetch"]
    /\ UNCHANGED <<world, opts, source, heap, redirectMap, proc, lastLoad, reqs>>

\* main calls loadRules; later each tick of the ticker does, one call at a time
LoadStart ==
    /\ load.pc = "idle"
    /\ proc = "boot" \/ (proc = "serving" /\ opts.PollInterval > 0)
    /\ load' = [load EXCEPT !.pc = "fetch"]
    /\ UNCHANGED <<world, opts, source, heap, redirectMap, mapMutex, proc, lastLoad, reqs>>

\* a loadRules that goes on after an error, with the nil map
LoadFetchPublishesOnError ==
    /\ Running
    /\ load.pc = "fetch"
    /\ LET files == ParseFiles(Tree(source))
       IN  \E r \in {LoadRedirectsFromDir(files, order) :
                       order \in Orders(HostsOf(Tree(source)))} :
             LET id == NewId(heap)
             IN  CASE r.st = "panic" ->
                        /\ proc' = "crashed"
                        /\ UNCHANGED <<load, lastLoad, heap>>
                   [] OTHER ->
                        /\ heap' = heap @@ (id :> [m |-> IF r.st = "err" THEN EmptyMap
                                                         ELSE InternMap(r.rules),
                                                  pub |-> FALSE, src |-> source,
                                                  ever |-> {}])
                        /\ load' = [pc |-> "sort", tempRedirects |-> id, totalRules |-> r.count]
                        /\ UNCHANGED <<proc, lastLoad>>
    /\ UNCHANGED <<world, opts, source, redirectMap, mapMutex, reqs>>

\* tempRedirects, totalRules, err = loadRedirectsFromDir(opts.CsvSrc).  An
\* error ends loadRules: main exits on it (log.Fatalf), the reload goroutine
\* logs it.  A panic ends the process.  The new map remembers, as history, the
\* content it was read from (src).
LoadFetch ==
    /\ Running
    /\ load.pc = "fetch"
    /\ LET files == ParseFiles(Tree(source))
       IN  \E r \in {LoadRedirectsFromDir(files, order) :
                       order \in Orders(HostsOf(Tree(source)))} :
             LET id == NewId(heap)
             IN  CASE r.st = "panic" ->
                        /\ proc' = "crashed"
                        /\ UNCHANGED <<load, lastLoad, heap>>
                   [] r.st = "err" ->
                        /\ proc' = IF proc = "boot" THEN "exited" ELSE proc
                        /\ load' = IdleLoad
                        /\ lastLoad' = "err"
                        /\ UNCHANGED heap
                   [] OTHER ->
                        /\ heap' = heap @@ (id :> [m |-> InternMap(r.rules), pub |-> FALSE,
                                                  src |-> source, ever |-> {}])
                        /\ load' = [pc |-> "sort", tempRedirects |-> id, totalRules |-> r.count]
                        /\ UNCHANGED <<proc, lastLoad>>
    /\ UNCHANGED <<world, opts, source, redirectMap, mapMutex, reqs>>

\* a loadRules that sorts the new rules of a host into the slice redirectMap
\* holds for that host
LoadSortIntoLive ==
    /\ Running
    /\ load.pc = "sort"
    /\ heap' = [heap EXCEPT ![load.tempRedirects].m = SortAll(@),
                            ![redirectMap].m =
                                [h \in DOMAIN @ |->
                                    IF h \in DOMAIN heap[load.tempRedirects].m
                                    THEN SortAll(heap[load.tempRedirects].m)[h]
                                    ELSE @[h]]]
    /\ load' = [load EXCEPT !.pc = "lock"]
    /\ UNCHANGED <<world, opts, source, redirectMap, mapMutex, proc, lastLoad, reqs>>

\* the sort.Slice of every host's slice, in place
LoadSort ==
    /\ Running
    /\ load.pc = "sort"
    /\ heap' = [heap EXCEPT ![load.tempRedirects].m = SortAll(@)]
    /\ load' = [load EXCEPT !.pc = "lock"]
    /\ UNCHANGED <<world, opts, source, redirectMap, mapMutex, proc, lastLoad, reqs>>

\* a Lock that does not wait for the readers
LoadLockNoWait ==
    /\ Running
    /\ load.pc = "lock"
    /\ ~mapMutex.w
    /\ mapMutex' = [mapMutex EXCEPT !.w = TRUE]
    /\ load' = [load EXCEPT !.pc = "swap"]
    /\ UNCHANGED <<world, opts, source, heap, redirectMap, proc, lastLoad, reqs>>

\* mapMutex.Lock() returns.  loadRules has called it when the sort ended
\* (load.pc = "lock"); it waits for the readers that hold the lock, and no
\* new reader takes the lock meanwhile.
LoadLock ==
    /\ Running
    /\ load.pc = "lock"
    /\ ~mapMutex.w /\ mapMutex.r = 0
    /\ mapMutex' = [mapMutex EXCEPT !.w = TRUE]
    /\ load' = [load EXCEPT !.pc = "swap"]
    /\ UNCHANGED <<world, opts, source, heap, redirectMap, proc, lastLoad, reqs>>

\* a loadRules that copies the new entries into the map the readers hold,
\* instead of replacing the map
LoadSwapInPlace ==
    /\ Running
    /\ load.pc = "swap"
    /\ heap' = Collect([heap EXCEPT ![redirectMap].m = heap[load.tempRedirects].m,
                                    ![redirectMap].pub = TRUE,
                                    ![redirectMap].ever = @ \cup DOMAIN heap[load.tempRedirects].m],
                       Live(redirectMap, IdleLoad, reqs))
    /\ mapMutex' = [mapMutex EXCEPT !.w = FALSE]
    /\ load' = IdleLoad
    /\ lastLoad' = "ok"
    /\ proc' = "serving"
    /\ UNCHANGED <<world, opts, source, redirectMap, reqs>>

\* a loadRules that leaves in the new map the hosts of the old one that the
\* new one does not have
LoadSwapKeepsHosts ==
    /\ Running
    /\ load.pc = "swap"
    /\ redirectMap' = load.tempRedirects
    /\ mapMutex' = [mapMutex EXCEPT !.w = FALSE]
    /\ load' = IdleLoad
    /\ lastLoad' = "ok"
    /\ proc' = "serving"
    /\ heap' = Collect([heap EXCEPT ![load.tempRedirects].pub = TRUE,
                                    ![load.tempRedirects].m = @ @@ heap[redirectMap].m,
                                    ![load.tempRedirects].ever =
                                        heap[redirectMap].ever \cup DOMAIN heap[load.tempRedirects].m],
                       Live(redirectMap', load', reqs))
    /\ UNCHANGED <<world, opts, source, reqs>>

\* redirectMap = tempRedirects; mapMutex.Unlock(); return nil.  After main's
\* call main goes on to ListenAndServe.
LoadSwap ==
    /\ Running
    /\ load.pc = "swap"
    /\ redirectMap' = load.tempRedirects
    /\ mapMutex' = [mapMutex EXCEPT !.w = FALSE]
    /\ load' = IdleLoad
    /\ lastLoad' = "ok"
    /\ proc' = "serving"
    /\ heap' = Collect([heap EXCEPT ![load.tempRedirects].pub = TRUE,
                                    ![load.tempRedirects].ever =
                                        heap[redirectMap].ever \cup DOMAIN heap[load.tempRedirects].m],
                       Live(redirectMap', load', reqs))
    /\ UNCHANGED <<world, opts, source, reqs>>

\* a listener that is started before main's loadRules has returned
ReqStartBeforeLoad(i) ==
    /\ Running
    /\ reqs[i].pc \in {"idle", "done"}
    /\ ~mapMutex.w /\ load.pc # "lock"
    /\ \E rq \in Requests(world) :
          LET handler == Route(Chars(opts.HealthCheckPath), Chars(opts.HealthCheckDomain),
                               Chars(rq.host), Chars(rq.path))
          IN  reqs' = [reqs EXCEPT ![i] =
                          [IdleTask EXCEPT !.pc = "locked",
                                           !.handler = handler,
                                           !.host = rq.host,
                                           !.path = rq.path]]
    /\ mapMutex' = [mapMutex EXCEPT !.r = @ + 1]
    /\ UNCHANGED <<world, opts, source, heap, redirectMap, proc, load, lastLoad>>

\* A request arrives and its handler takes the read lock: mapMutex.RLock(),
\* which waits while a writer holds the lock or waits for it (load.pc =
\* "lock").  main reaches http.ListenAndServe after its loadRules has returned
\* nil.
ReqStart(i) ==
    /\ proc = "serving"
    /\ reqs[i].pc \in {"idle", "done"}
    /\ ~mapMutex.w /\ load.pc # "lock"
    /\ \E rq \in Requests(world) :
          LET handler == Route(Chars(opts.HealthCheckPath), Chars(opts.HealthCheckDomain),
                               Chars(rq.host), Chars(rq.path))
          IN  reqs' = [reqs EXCEPT ![i] =
                          [IdleTask EXCEPT !.pc = "locked",
                                           !.handler = handler,
                                           !.host = rq.host,
                                           !.path = rq.path]]
    /\ mapMutex' = [mapMutex EXCEPT !.r = @ + 1]
    /\ UNCHANGED <<world, opts, source, heap, redirectMap, proc, load, lastLoad>>

\* redirectHandler: rules, hostExists := redirectMap[host]; mapMutex.RUnlock()
ReqLookup(i) ==
    /\ proc = "serving"
    /\ reqs[i].pc = "locked" /\ reqs[i].handler = "redirect"
    /\ LET l == Lookup(heap[redirectMap].m, Intern(StripPort(Chars(reqs[i].host))))
       IN  reqs' = [reqs EXCEPT ![i].pc = "match",
                                ![i].rules = IF l.hostExists
                                             THEN [m |-> redirectMap, h |-> l.key]
                                             ELSE NoRef,
                                ![i].hostExists = l.hostExists,
                                ![i].seenPub = heap[redirectMap].pub,
                                ![i].seenShape = Shape(heap[redirectMap].m)]
    /\ mapMutex' = [mapMutex EXCEPT !.r = @ - 1]
    /\ UNCHANGED <<world, opts, source, heap, redirectMap, proc, load, lastLoad>>

\* a loop that ranges over pointers to the rules and writes each exact rule's
\* normalized path back into the rule
ReqMatchNormalizesInPlace(i) ==
    /\ proc = "serving"
    /\ reqs[i].pc = "match"
    /\ reqs' = [reqs EXCEPT ![i].pc = "done",
                            ![i].rules = NoRef,
                            ![i].res = IF ~reqs[i].hostExists THEN NotFound(0)
                                       ELSE MatchLoop(CharsRules(heap[reqs[i].rules.m].m[reqs[i].rules.h]),
                                                      Chars(reqs[i].path), 1)]
    /\ heap' = Collect(IF ~reqs[i].hostExists THEN heap
                       ELSE [heap EXCEPT ![reqs[i].rules.m].m[reqs[i].rules.h] =
                                [k \in DOMAIN @ |->
                                    IF @[k].MatchType = "exact"
                                    THEN [@[k] EXCEPT !.SourcePathOrRegex =
                                             Intern(NormalizeSlash(Chars(@)))]
                                    ELSE @[k]]],
                       Live(redirectMap, load, reqs'))
    /\ UNCHANGED <<world, opts, source, redirectMap, mapMutex, proc, load, lastLoad>>

\* redirectHandler from if !hostExists on: http.NotFound, or the loop over
\* rules and the http.Redirect of the first target
ReqMatch(i) ==
    /\ proc = "serving"
    /\ reqs[i].pc = "match"
    /\ reqs' = [reqs EXCEPT ![i].pc = "done",
                            ![i].rules = NoRef,
                            ![i].res = IF ~reqs[i].hostExists THEN NotFound(0)
                                       ELSE MatchLoop(CharsRules(heap[reqs[i].rules.m].m[reqs[i].rules.h]),
                                                      Chars(reqs[i].path), 1)]
    /\ heap' = Collect(heap, Live(redirectMap, load, reqs'))
    /\ UNCHANGED <<world, opts, source, redirectMap, mapMutex, proc, load, lastLoad>>

\* healthCheckHandler: domainCount := len(redirectMap)
HealthDomains(i) ==
    /\ proc = "serving"
    /\ reqs[i].pc = "locked" /\ reqs[i].handler = "health"
    /\ reqs' = [reqs EXCEPT ![i].pc = "count",
                            ![i].domainCount = Cardinality(DOMAIN heap[redirectMap].m),
                            ![i].seenPub = heap[redirectMap].pub,
                            ![i].seenShape = Shape(heap[redirectMap].m)]
    /\ UNCHANGED <<world, opts, source, heap, redirectMap, mapMutex, proc, load, lastLoad>>

\* healthCheckHandler: the loop adding up redirectCount, mapMutex.RUnlock()
\* and the response
HealthRedirects(i) ==
    /\ proc = "serving"
    /\ reqs[i].pc = "count"
    /\ reqs' = [reqs EXCEPT ![i].pc = "done",
                            ![i].redirectCount = RedirectCount(heap[redirectMap].m),
                            ![i].res = [kind |-> "health", target |-> <<>>, status |-> 200,
                                        rule |-> 0, evaluated |-> 0]]
    /\ mapMutex' = [mapMutex EXCEPT !.r = @ - 1]
    /\ UNCHANGED <<world, opts, source, heap, redirectMap, proc, load, lastLoad>>

\* Somebody changes the files under opts.CsvSrc.  loadRules reads them in
\* LoadFetch alone, so a change at any other moment of a call is a change
\* before the next call.
EditSource ==
    /\ proc = "serving" /\ opts.PollInterval > 0
    /\ load.pc = "idle"
    /\ \E d \in Sources(world) \ {source} : source' = d
    /\ UNCHANGED <<world, opts, heap, redirectMap, mapMutex, proc, load, lastLoad, reqs>>

Next ==
    \/ LoadStart
    \/ LoadFetch
    \/ LoadSort
    \/ LoadLock
    \/ LoadSwap
    \/ EditSource
    \/ \E i \in Tasks : ReqStart(i)
    \/ \E i \in Tasks : ReqLookup(i)
    \/ \E i \in Tasks : ReqMatch(i)
    \/ \E i \in Tasks : HealthDomains(i)
    \/ \E i \in Tasks : HealthRedirects(i)

\* the state of the process when main starts, in world w
Boot(w) ==
    /\ world = w
    /\ opts \in OptionsOf(w)
    /\ source \in Sources(w)
    /\ heap = (1 :> [m |-> EmptyMap, pub |-> FALSE, src |-> <<>>, ever |-> {}])
    /\ redirectMap = 1
    /\ mapMutex = [w |-> FALSE, r |-> 0]
    /\ proc = "boot"
    /\ load = IdleLoad
    /\ lastLoad = "none"
    /\ reqs = [i \in Tasks |-> IdleTask]

Init ==
    Boot("system")

Spec ==
    Init /\ [][Next]_vars

\* the handlers over the example rules: no ticker, no health check path
InitMatch ==
    Boot("match")

NextMatch ==
    \/ LoadStart
    \/ LoadFetch
    \/ LoadSort
    \/ LoadLock
    \/ LoadSwap
    \/ \E i \in Tasks : ReqStart(i)
    \/ \E i \in Tasks : ReqLookup(i)
    \/ \E i \in Tasks : ReqMatch(i)

SpecMatch ==
    InitMatch /\ [][NextMatch]_vars

\* the initial load over every file of up to MaxRows records
InitParse ==
    Boot("parse")

NextParse ==
    \/ LoadStart
    \/ LoadFetch
    \/ LoadSort
    \/ LoadLock
    \/ LoadSwap

SpecParse ==
    InitParse /\ [][NextParse]_vars

\* the reloads and the handlers over trees that hold the same files under
\* other names: no health check path
InitOrder ==
    Boot("order")

NextOrder ==
    \/ LoadStart
    \/ LoadFetch
    \/ LoadSort
    \/ LoadLock
    \/ LoadSwap
    \/ EditSource
    \/ \E i \in Tasks : ReqStart(i)
    \/ \E i \in Tasks : ReqLookup(i)
    \/ \E i \in Tasks : ReqMatch(i)

SpecOrder ==
    InitOrder /\ [][NextOrder]_vars

(***************************************************************************)
(* The claims.                                                             *)
(***************************************************************************)

\* the slots whose handler has read redirectMap
HasRead ==
    {i \in Tasks : reqs[i].pc \in {"match", "count", "done"}}

\* the weights of a slice, in its order
Weights(rules) ==
    [k \in DOMAIN rules |-> rules[k].Weight]

RECURSIVE SumShape(_)
SumShape(shape) ==
    IF DOMAIN shape = {} THEN 0
    ELSE LET h == CHOOSE x \in DOMAIN shape : TRUE
         IN  shape[h] + SumShape([x \in DOMAIN shape \ {h} |-> shape[x]])

\* the map a handler reads is one loadRules has assigned to redirectMap, never
\* the one a loadRules is still building
ReadersSeePublished ==
    /\ proc = "serving" => heap[redirectMap].pub
    /\ load.tempRedirects # 0 => load.tempRedirects # redirectMap
    /\ \A i \in HasRead : reqs[i].seenPub
    /\ \A i \in Tasks : reqs[i].rules.m # 0 =>
          /\ reqs[i].rules.m \in DOMAIN heap
          /\ heap[reqs[i].rules.m].pub
          /\ reqs[i].rules.m # load.tempRedirects
          /\ Shape(heap[reqs[i].rules.m].m) = reqs[i].seenShape

\* a map that has been assigned to redirectMap keeps its keys, its slices and
\* their order for as long as anything refers to it
PublishedUnchanged ==
    \A id \in DOMAIN heap :
        (heap[id].pub /\ id \in DOMAIN heap') => heap'[id] = heap[id]

\* C1: under every interleaving of the handlers and loadRules, what a handler
\* reads from redirectMap is one whole map that loadRules published: a
\* published map never changes, and no handler reads a map before it is
\* published.
AtomicPublish ==
    []ReadersSeePublished /\ [][PublishedUnchanged]_vars

\* a handler is in its loop over the slice of a map that loadRules has since
\* replaced with a map of other rules
AtomicPublishWitness ==
    \E i \in Tasks :
        /\ reqs[i].pc = "match"
        /\ reqs[i].rules.m # 0
        /\ reqs[i].rules.m # redirectMap
        /\ heap[reqs[i].rules.m].m # heap[redirectMap].m
        /\ heap[redirectMap].pub

\* C2: in every state from the first load on, whatever loads have succeeded or
\* failed since, the slice of every host of redirectMap is in non-increasing
\* order of Weight.
SortedByWeight ==
    proc \in {"serving", "crashed"} =>
        \A h \in DOMAIN heap[redirectMap].m :
            LET rules == heap[redirectMap].m[h]
            IN  \A k \in 1..(Len(rules) - 1) : rules[k].Weight >= rules[k + 1].Weight

\* after a reload that failed, a.io's rules, which B.CSV and a.csv list with
\* weights 50, 100, 200, are in the order 200, 100, 50
SortedByWeightWitness ==
    /\ proc = "serving"
    /\ lastLoad = "err"
    /\ "a.io" \in DOMAIN heap[redirectMap].m
    /\ Weights(heap[redirectMap].m["a.io"]) = <<200, 100, 50>>

\* the step of a reload in which loadRedirectsFromDir returns an error
ReloadFails ==
    /\ proc = "serving"
    /\ load.pc = "fetch"
    /\ load' # load
    /\ \E order \in Orders(HostsOf(Tree(source))) :
          LoadRedirectsFromDir(ParseFiles(Tree(source)), order).st = "err"

\* C4: a reload that ends with loadRedirectsFromDir's error leaves redirectMap
\* and the map it refers to as they were, takes no lock, and leaves the
\* process serving with the ticker's next loadRules still to come.
FailedReloadKeepsRules ==
    [][ReloadFails =>
          /\ redirectMap' = redirectMap
          /\ heap' = heap
          /\ mapMutex' = mapMutex
          /\ reqs' = reqs
          /\ proc' = "serving"
          /\ load' = IdleLoad]_vars

\* a reload has failed and the process serves the rules of the load before it
FailedReloadKeepsRulesWitness ==
    /\ proc = "serving"
    /\ lastLoad = "err"
    /\ load = IdleLoad
    /\ source = DirUnlistable
    /\ DOMAIN heap[redirectMap].m # {}

\* the key redirectHandler looks up for the request of slot i
HostOf(i) ==
    Intern(StripPort(Chars(reqs[i].host)))

\* C5: a request whose host, its port stripped, is no key of the map the
\* handler reads is answered NotFound, whatever its path, and no rule is
\* evaluated for it.
UnknownHostNotFound ==
    \A i \in Tasks :
        (/\ reqs[i].pc = "done"
         /\ reqs[i].handler = "redirect"
         /\ HostOf(i) \notin DOMAIN reqs[i].seenShape)
        => reqs[i].res = NotFound(0)

\* b.io is answered NotFound by a process whose map has a.io alone
UnknownHostNotFoundWitness ==
    \E i \in Tasks :
        /\ reqs[i].pc = "done"
        /\ reqs[i].handler = "redirect"
        /\ reqs[i].host = "b.io"
        /\ DOMAIN reqs[i].seenShape = {"a.io"}
        /\ reqs[i].res = NotFound(0)

\* C10: the health check answers with the number of keys and the number of
\* rules of one map, the published map it read under the read lock, and that
\* number of rules is the totalRules of the load that built the map.
HealthCountsOneMap ==
    /\ \A i \in Tasks :
          /\ (reqs[i].pc = "count" /\ reqs[i].handler = "health") =>
                /\ reqs[i].seenPub
                /\ reqs[i].seenShape = Shape(heap[redirectMap].m)
                /\ reqs[i].domainCount = Cardinality(DOMAIN reqs[i].seenShape)
          /\ (reqs[i].pc = "done" /\ reqs[i].handler = "health") =>
                /\ reqs[i].seenPub
                /\ reqs[i].domainCount = Cardinality(DOMAIN reqs[i].seenShape)
                /\ reqs[i].redirectCount = SumShape(reqs[i].seenShape)
    /\ load.pc \in {"sort", "lock", "swap"} =>
          load.totalRules = RedirectCount(heap[load.tempRedirects].m)

\* the health check has answered domains 2, redirects 5 about the two files
\* of DirTwoHosts
HealthCountsOneMapWitness ==
    \E i \in Tasks :
        /\ reqs[i].pc = "done"
        /\ reqs[i].handler = "health"
        /\ reqs[i].domainCount = 2
        /\ reqs[i].redirectCount = 5
        /\ source = DirTwoHosts

\* the slots whose redirectHandler has gone through its loop
Looped ==
    {i \in Tasks : reqs[i].pc = "done" /\ reqs[i].handler = "redirect" /\ reqs[i].hostExists}

\* the slice of slot i's host (nothing reloads the rules in SpecMatch)
RulesOf(i) ==
    CharsRules(heap[redirectMap].m[HostOf(i)])

\* rule k has redirected the request of slot i
Wins(i, k) ==
    reqs[i].res.kind = "redirect" /\ reqs[i].res.rule = k

\* the rules of a slice that give a target for a path
Hits(rules, path) ==
    {k \in DOMAIN rules : RuleTarget(rules[k], path) # <<>>}

\* C3: for a host of the map, the answer is the target and the status code of
\* the first rule, in the stored order, that gives a non-empty target, and no
\* rule after it is evaluated; when no rule gives one the answer is NotFound.
FirstMatchWins ==
    \A i \in Looped :
        LET rules == RulesOf(i)
            path == Chars(reqs[i].path)
            hits == Hits(rules, path)
            first == CHOOSE k \in hits : \A j \in hits : k <= j
        IN  IF hits = {}
            THEN reqs[i].res = NotFound(Len(rules))
            ELSE reqs[i].res = [kind |-> "redirect",
                                target |-> RuleTarget(rules[first], path),
                                status |-> rules[first].StatusCode,
                                rule |-> first,
                                evaluated |-> first]

\* /products/123 has been redirected by the rule of weight 200, the first of
\* old-site.com's slice, whose rule of weight 50 gives a target too
FirstMatchWinsWitness ==
    \E i \in Looped :
        /\ reqs[i].host = "old-site.com" /\ reqs[i].path = "/products/123"
        /\ Wins(i, 1)
        /\ LET rules == RulesOf(i)
           IN  /\ rules[1].Weight = 200
               /\ \E k \in Hits(rules, Chars(reqs[i].path)) : rules[k].Weight = 50

\* norm of the claims: a string longer than one character that ends with "/"
\* loses all its trailing "/"
RECURSIVE StripSlashes(_)
StripSlashes(str) ==
    IF str # <<>> /\ str[Len(str)] = "/"
    THEN StripSlashes(SubSeq(str, 1, Len(str) - 1))
    ELSE str

Norm(str) ==
    IF Len(str) > 1 /\ str[Len(str)] = "/" THEN StripSlashes(str) ELSE str

\* rule and path are equal up to Norm, and the rule has a target to give
ExactHit(rule, path) ==
    Norm(rule.SourcePathOrRegex) = Norm(path) /\ rule.TargetURLFormat # <<>>

\* C7 as the spec has it: every rule whose match type is not "regex" is
\* matched as an exact rule.
OtherTokenIsExact ==
    \A i \in Looped :
        LET rules == RulesOf(i)
        IN  \A k \in 1..reqs[i].res.evaluated :
                rules[k].MatchType # Chars("regex") =>
                    (Wins(i, k) <=> ExactHit(rules[k], Chars(reqs[i].path)))

\* C7, amended: "regex" alone selects pattern matching and "exact" alone
\* selects exact matching; a rule with any other match type is stored and
\* never redirects a request, not even one for its own path.
TokenSelectsMatching ==
    \A i \in Looped :
        LET rules == RulesOf(i)
            path == Chars(reqs[i].path)
        IN  \A k \in 1..reqs[i].res.evaluated :
                CASE rules[k].MatchType = Chars("regex") ->
                       Wins(i, k) => MatchString(rules[k].Regex, path)
                  [] rules[k].MatchType = Chars("exact") ->
                       Wins(i, k) <=> ExactHit(rules[k], path)
                  [] OTHER ->
                       ~Wins(i, k)

\* the request for /pre has gone past the "prefix" rule for /pre, the first
\* of t.io's slice, and was answered NotFound
TokenSelectsMatchingWitness ==
    \E i \in Looped :
        /\ reqs[i].host = "t.io" /\ reqs[i].path = "/pre"
        /\ RulesOf(i)[1].MatchType = Chars("prefix")
        /\ RulesOf(i)[1].SourcePathOrRegex = Chars("/pre")
        /\ reqs[i].res = NotFound(5)

\* the answer to a request for host and path, once there is one
Answered(host, path, target, status) ==
    \A i \in Looped :
        (reqs[i].host = host /\ reqs[i].path = path) =>
            /\ reqs[i].res.kind = "redirect"
            /\ reqs[i].res.target = Chars(target)
            /\ reqs[i].res.status = status

\* C8: an exact rule redirects a request exactly when its path and the
\* request's are equal up to Norm (and it has a target), and then to its
\* target as it is written: /about-us/ is redirected by the rule for
\* /about-us, /about-us by the rule for /about-us/, and / by the rule for /.
ExactUpToSlashes ==
    /\ \A i \in Looped :
          LET rules == RulesOf(i)
          IN  \A k \in 1..reqs[i].res.evaluated :
                  rules[k].MatchType = Chars("exact") =>
                     /\ Wins(i, k) <=> ExactHit(rules[k], Chars(reqs[i].path))
                     /\ Wins(i, k) => reqs[i].res.target = rules[k].TargetURLFormat
    /\ Answered("old-site.com:8080", "/about-us/", "https://new-site.com/company/about", 301)
    /\ Answered("old-site.com", "/about-us//", "https://new-site.com/company/about", 301)
    /\ Answered("t.io", "/about-us", "//t/a", 301)
    /\ Answered("t.io", "/", "//t/r", 302)
    /\ \A i \in Looped : (reqs[i].host = "t.io" /\ reqs[i].path = "//") =>
                            reqs[i].res = NotFound(5)

\* /about-us// has been redirected by the exact rule for /about-us
ExactUpToSlashesWitness ==
    \E i \in Looped :
        /\ reqs[i].host = "old-site.com" /\ reqs[i].path = "/about-us//"
        /\ RulesOf(i)[reqs[i].res.rule].MatchType = Chars("exact")
        /\ RulesOf(i)[reqs[i].res.rule].SourcePathOrRegex = Chars("/about-us")
        /\ reqs[i].res.target = Chars("https://new-site.com/company/about")

\* C9: the target of a pattern rule is the request path with every match of
\* the pattern replaced by the expansion of the template in which $path has
\* first been replaced by the request path: /blog/my-post goes to
\* https://blog.new-site.com/blog/my-post and /products/123 to
\* https://new-site.com/items/123 with status 301.
PathThenGroups ==
    /\ \A i \in Looped :
          LET rules == RulesOf(i)
              path == Chars(reqs[i].path)
              rule == rules[reqs[i].res.rule]
              template == ReplaceAll(rule.TargetURLFormat, <<"$","p","a","t","h">>, path)
          IN  (reqs[i].res.kind = "redirect" /\ rule.MatchType = Chars("regex")) =>
                 /\ reqs[i].res.target = ReplaceAllString(rule.Regex, path, template)
                 /\ reqs[i].res.status = rule.StatusCode
    /\ Answered("old-site.com", "/blog/my-post", TargetBlogPost, 301)
    /\ Answered("old-site.com", "/products/123", TargetItem, 301)

\* /blog/my-post has been redirected by the pattern rule ^/blog/.* whose
\* template ends in $path
PathThenGroupsWitness ==
    \E i \in Looped :
        /\ reqs[i].host = "old-site.com" /\ reqs[i].path = "/blog/my-post"
        /\ RulesOf(i)[reqs[i].res.rule].SourcePathOrRegex = Chars("^/blog/.*")
        /\ RulesOf(i)[reqs[i].res.rule].TargetURLFormat = Chars("https://blog.new-site.com$path")
        /\ reqs[i].res.target = Chars(TargetBlogPost)

\* the records of the one file of a tree of SpecParse
RecordsRead ==
    Tree(source)[1].records

\* a record the claims call a comment
IsComment(record) ==
    Len(record) >= 1 /\ HasPrefix(TrimSpace(record[1]), <<"#">>)

\* a record C6 expects to be compiled
Compilable(record) ==
    /\ Len(record) = 6
    /\ ~IsComment(record)
    /\ TrimSpace(record[2]) = Chars("regex") => Compile(TrimSpace(record[3])).st # "error"

\* the records after the header that C6 expects to be compiled, in file order
ExpectedRecords(records) ==
    SelectSeq(IF records = <<>> THEN <<>> ELSE Tail(records), Compilable)

\* what a rule and a record have in common
RuleFields(rule) ==
    <<rule.SourceHost, rule.MatchType, rule.SourcePathOrRegex, rule.TargetURLFormat>>

RecordFields(record) ==
    <<TrimSpace(record[1]), TrimSpace(record[2]), TrimSpace(record[3]), TrimSpace(record[4])>>

\* the map parseRules has returned holds the records of expected, each under
\* its host, in their order
HoldsExactly(m, expected) ==
    /\ DOMAIN m = {Intern(TrimSpace(expected[k][1])) : k \in DOMAIN expected}
    /\ \A h \in DOMAIN m :
          LET mine(record) == TrimSpace(record[1]) = Chars(h)
              records == SelectSeq(expected, mine)
              rules == CharsRules(m[h])
          IN  /\ Len(rules) = Len(records)
              /\ \A k \in DOMAIN rules : RuleFields(rules[k]) = RecordFields(records[k])

\* the load of the file has compiled the records expected of it
CompiledAsExpected ==
    load.pc = "sort" =>
        /\ load.totalRules = Len(ExpectedRecords(RecordsRead))
        /\ HoldsExactly(heap[load.tempRedirects].m, ExpectedRecords(RecordsRead))

\* C6: whatever records a file has, its load does not fail and compiles
\* exactly the records after the header that are no comment, have 6 fields
\* and, being of type regex, a pattern that compiles.
EveryFileCompiles ==
    /\ proc \notin {"crashed", "exited"}
    /\ CompiledAsExpected

\* C6 for the files that have a first record
FileWithHeaderCompiles ==
    RecordsRead # <<>> => EveryFileCompiles

\* a file of a header, a record of 6 fields and one of 5 has given one rule
FileWithHeaderCompilesWitness ==
    /\ load.pc = "sort"
    /\ RecordsRead = Tree(<<File("a.csv", <<RowHeader, RowU, RowFiveFields>>)>>)[1].records
    /\ load.totalRules = 1

\* the maps whose slices loadRules has sorted
Built(id) ==
    /\ id \in DOMAIN heap
    /\ heap[id].src # <<>>
    /\ id = load.tempRedirects => load.pc \in {"lock", "swap"}

\* C11: two calls of loadRules that read the same content build the same map:
\* the same hosts, and for every host the same rules in the same order, rules
\* of equal weight included, whatever order the ranges over the maps took.
LoadDeterministic ==
    \A a, b \in DOMAIN heap :
        (Built(a) /\ Built(b) /\ heap[a].src = heap[b].src) => heap[a].m = heap[b].m

\* a reload has built a map from the content the published map was read from,
\* a host of it holding two rules of one weight
LoadDeterministicWitness ==
    \E a, b \in DOMAIN heap :
        /\ a # b
        /\ Built(a) /\ Built(b)
        /\ heap[a].src = heap[b].src
        /\ \E h \in DOMAIN heap[a].m :
              \E i, j \in DOMAIN heap[a].m[h] :
                  i < j /\ heap[a].m[h][i].Weight = heap[a].m[h][j].Weight

\* the positions after the first of the records that are to be compiled
LaterCompilable(records) ==
    {j \in 2..Len(records) : Compilable(records[j])}

\* map m holds a rule made of record
HoldsRuleOf(m, record) ==
    /\ Intern(TrimSpace(record[1])) \in DOMAIN m
    /\ \E k \in DOMAIN m[Intern(TrimSpace(record[1]))] :
          RuleFields(CharsRule(m[Intern(TrimSpace(record[1]))][k])) = RecordFields(record)

\* C12: the first record of a file gives no rule, whatever it holds, a
\* well-formed record of 6 fields included, and every later record is
\* considered: the rules of the file are as many as its later records that
\* are to be compiled, and each of these has its rule.
FirstRowSkipped ==
    load.pc = "sort" =>
        LET records == RecordsRead
            m == heap[load.tempRedirects].m
        IN  /\ load.totalRules = Cardinality(LaterCompilable(records))
            /\ RedirectCount(m) = Cardinality(LaterCompilable(records))
            /\ \A j \in LaterCompilable(records) : HoldsRuleOf(m, records[j])

\* a file whose first record is a well-formed rule for /u and whose second is
\* another rule has given the second rule alone
FirstRowSkippedWitness ==
    /\ load.pc = "sort"
    /\ Len(RecordsRead) = 2
    /\ Compilable(RecordsRead[1])
    /\ RecordsRead[1][3] = <<"/", "u">>
    /\ Compilable(RecordsRead[2])
    /\ load.totalRules = 1
    /\ ~HoldsRuleOf(heap[load.tempRedirects].m, RecordsRead[1])
    /\ HoldsRuleOf(heap[load.tempRedirects].m, RecordsRead[2])

\* how many rules map m holds under the host ""
BlankHostRules(m) ==
    IF "" \in DOMAIN m THEN Len(m[""]) ELSE 0

\* the positions after the first of the records that are to be compiled and
\* have a blank first field
LaterBlankHost(records) ==
    {j \in LaterCompilable(records) : TrimSpace(records[j][1]) = <<>>}

\* C13 as stated: no record whose first field trims to nothing, or begins
\* with # once trimmed, gives a rule, whatever its number of fields.  The host
\* of a rule is the trimmed first field of its record, so no host of the map
\* is empty or begins with #.
BlankOrCommentSkipped ==
    load.pc = "sort" =>
        \A h \in DOMAIN heap[load.tempRedirects].m :
            Chars(h) # <<>> /\ ~HasPrefix(Chars(h), <<"#">>)

\* C13, amended: a record whose trimmed first field begins with # gives no
\* rule, whatever its number of fields; a record whose first field trims to
\* nothing gives no rule unless it has 6 fields, and then it is compiled as
\* any other record, into a rule of the host "".
CommentSkippedBlankHostKept ==
    load.pc = "sort" =>
        LET records == RecordsRead
            m == heap[load.tempRedirects].m
        IN  /\ \A h \in DOMAIN m : ~HasPrefix(Chars(h), <<"#">>)
            /\ BlankHostRules(m) = Cardinality(LaterBlankHost(records))
            /\ \A j \in LaterBlankHost(records) : HoldsRuleOf(m, records[j])

\* a file of a header, a record of 6 fields that begins with # and a record
\* of 6 fields with a blank first field has given one rule, of the host ""
CommentSkippedBlankHostKeptWitness ==
    /\ load.pc = "sort"
    /\ Len(RecordsRead) = 3
    /\ Len(RecordsRead[2]) = 6 /\ IsComment(RecordsRead[2])
    /\ Len(RecordsRead[3]) = 6 /\ RecordsRead[3][1] = <<" ">>
    /\ load.totalRules = 1
    /\ DOMAIN heap[load.tempRedirects].m = {""}

\* an optional sign and then decimal digits, at least one
IsIntLiteral(field) ==
    LET body == IF field # <<>> /\ Head(field) \in {"+", "-"} THEN Tail(field) ELSE field
    IN  body # <<>> /\ \A i \in DOMAIN body : body[i] \in Digits

\* an integer literal of more than 19 digits, the first not 0: beyond the int
\* of every build
BeyondInt(field) ==
    LET body == IF field # <<>> /\ Head(field) \in {"+", "-"} THEN Tail(field) ELSE field
    IN  IsIntLiteral(field) /\ Len(body) > 19 /\ Head(body) # "0"

\* a field that does not parse as an int
Unparsable(field) ==
    ~IsIntLiteral(field) \/ BeyondInt(field)

\* the rules of map m made of record
RulesOfRecord(m, record) ==
    LET h == Intern(TrimSpace(record[1]))
    IN  IF h \in DOMAIN m
        THEN {m[h][k] : k \in {x \in DOMAIN m[h] :
                                  RuleFields(CharsRule(m[h][x])) = RecordFields(record)}}
        ELSE {}

\* the later records to be compiled whose status code or weight does not parse
LaterUnparsable(records) ==
    {j \in LaterCompilable(records) :
        Unparsable(records[j][5]) \/ Unparsable(records[j][6])}

Fallback(field) ==
    IF ~IsIntLiteral(field) THEN 0
    ELSE IF Head(field) = "-" THEN MinInt
    ELSE MaxInt

NoServingBeforePublish ==
    /\ ~heap[redirectMap].pub => \A i \in Tasks : reqs[i] = IdleTask
    /\ proc \in {"boot", "exited"} => ~heap[redirectMap].pub
    /\ proc = "serving" => heap[redirectMap].pub /\ lastLoad # "none"

\* main's loadRules has returned an error and the process has ended
NoServingBeforePublishWitness ==
    /\ proc = "exited"
    /\ lastLoad = "err"
    /\ ~heap[redirectMap].pub
    /\ \A i \in Tasks : reqs[i] = IdleTask

\* the files of a tree that loadRedirectsFromDir parses: the .csv files that
\* open and whose csv is well formed
ParsedFiles(entries) ==
    SelectSeq(entries,
              LAMBDA d : /\ d.kind = "file"
                         /\ HasSuffix(ToLower(d.name), <<".", "c", "s", "v">>)
                         /\ d.open
                         /\ d.csv = "ok")

\* the records of the parsed files of a tree that are to be compiled, file by
\* file
RECURSIVE ExpectedOfFiles(_)
ExpectedOfFiles(files) ==
    IF files = <<>> THEN <<>>
    ELSE ExpectedRecords(Head(files).records) \o ExpectedOfFiles(Tail(files))

\* map m holds one rule for each record of expected and no other rule
HoldsRulesOf(m, expected) ==
    /\ DOMAIN m = {Intern(TrimSpace(expected[k][1])) : k \in DOMAIN expected}
    /\ RedirectCount(m) = Len(expected)
    /\ \A k \in DOMAIN expected : HoldsRuleOf(m, expected[k])

\* C16: the map a loadRules has assigned to redirectMap holds the rules
\* compiled from the content that loadRules read, those of all files under
\* their hosts, and nothing else: no host and no rule of a map assigned
\* before, so that a host the content no longer names is absent.
PublishedIsThisLoad ==
    heap[redirectMap].pub =>
        HoldsRulesOf(heap[redirectMap].m,
                     ExpectedOfFiles(ParsedFiles(Tree(heap[redirectMap].src))))

\* a handler has answered from a map with the host b.io, and the map a reload
\* has assigned since, read from files that name a.io alone, has a.io alone
PublishedIsThisLoadWitness ==
    /\ proc = "serving"
    /\ lastLoad = "ok"
    /\ DOMAIN heap[redirectMap].m = {"a.io"}
    /\ \E i \in Tasks :
          /\ reqs[i].pc = "done"
          /\ "b.io" \in DOMAIN reqs[i].seenShape

\* a step of a handler: a request arrives, or a handler reads or answers
HandlerStep ==
    reqs' # reqs

\* C17: the steps of a handler, to a redirect or to http.NotFound, leave
\* redirectMap and every map that was assigned to it as they are: no host
\* comes or goes, no rule changes in a field or in its place.
HandlingKeepsPublished ==
    [][HandlerStep =>
          /\ redirectMap' = redirectMap
          /\ redirectMap \in DOMAIN heap'
          /\ \A id \in DOMAIN heap :
                heap[id].pub /\ id \in DOMAIN heap' => heap'[id].m = heap[id].m]_vars

\* one handler has answered with the redirect of a rule of a.io whose host
\* also has an exact rule with a trailing slash, the map still as loaded
HandlingKeepsPublishedWitness ==
    /\ proc = "serving"
    /\ "a.io" \in DOMAIN heap[redirectMap].m
    /\ \E k \in DOMAIN heap[redirectMap].m["a.io"] :
          heap[redirectMap].m["a.io"][k].SourcePathOrRegex = "/u/"
    /\ \E i \in Tasks :
          /\ reqs[i].pc = "done"
          /\ reqs[i].res.kind = "redirect"
          /\ reqs[i].host = "a.io:80"

\* loadRules is reading, parsing, compiling or sorting
Building ==
    load.pc \in {"fetch", "sort"}

\* C18: while loadRules reads, parses, compiles or sorts, the write lock of
\* mapMutex is not held; it is held only for the assignment to redirectMap.
\* So a request that arrives while a load is being built takes the read lock
\* at once, and a handler that holds the read lock goes on.
NoLockWhileBuilding ==
    /\ Building => ~mapMutex.w
    /\ mapMutex.w => load.pc = "swap"
    /\ (Building /\ proc = "serving") =>
          \A i \in Tasks :
              /\ reqs[i].pc \in {"idle", "done"} => ENABLED ReqStart(i)
              /\ reqs[i].pc = "locked" => ENABLED (ReqLookup(i) \/ HealthDomains(i))

\* a handler has taken the read lock while a reload is compiling the files
NoLockWhileBuildingWitness ==
    /\ proc = "serving"
    /\ load.pc = "fetch"
    /\ mapMutex.r > 0
    /\ \E i \in Tasks : reqs[i].pc = "locked"

\* The step of loadRules that ends the call of loadRedirectsFromDir, told by
\* its effect: it is the one step that takes load.pc from "fetch" or ends the
\* process meanwhile.  It can be taken whenever LoadFetch can.
FetchReturns ==
    /\ Running
    /\ load.pc = "fetch"
    /\ \/ /\ proc' = "crashed"
          /\ UNCHANGED <<world, opts, source, heap, redirectMap, mapMutex, load, lastLoad,
                         reqs>>
       \/ load'.pc # "fetch"

\* The ticker goroutine, and the handlers as far as they hold the read lock,
\* as the Go scheduler runs them: a tick comes again and again, and a
\* goroutine that can take its next step takes it.  The Lock of loadRules is
\* granted once the readers have left, since no new reader enters while it
\* waits.
Fairness ==
    /\ WF_vars(LoadStart)
    /\ WF_vars(FetchReturns)
    /\ WF_vars(LoadSort)
    /\ WF_vars(LoadLock)
    /\ WF_vars(LoadSwap)
    /\ \A i \in Tasks :
          /\ WF_vars(ReqLookup(i))
          /\ WF_vars(HealthDomains(i))
          /\ WF_vars(HealthRedirects(i))

SpecLive ==
    Init /\ [][Next]_vars /\ Fairness

\* C19: with a positive PollInterval the loop of the ticker goroutine never
\* stops: whatever ticks have failed, the process is up and the next tick
\* can run.
ReloadNeverStops ==
    (opts.PollInterval > 0 /\ heap[redirectMap].pub) =>
        /\ proc = "serving"
        /\ load.pc = "idle" => ENABLED LoadStart

\* the trees of the "system" world whose load succeeds
ReadableTrees ==
    {DirTwoHosts, DirOneHost}

\* the part of C19 that holds: for as long as the process is up, failed ticks
\* do not end the loop, and while the files are readable a later tick assigns
\* to redirectMap a map compiled from them
ReloadCatchesUp ==
    (proc = "serving" /\ opts.PollInterval > 0 /\ load.pc = "idle"
        /\ source \in ReadableTrees)
    ~> (heap[redirectMap].src = source \/ source \notin ReadableTrees)

\* redirectMap holds a map of the readable files after a reload that failed
ReloadCatchesUpWitness ==
    /\ proc = "serving"
    /\ opts.PollInterval > 0
    /\ load.pc = "sort"
    /\ lastLoad = "err"
    /\ source \in ReadableTrees
    /\ heap[redirectMap].src # source

\* a record after the first that parseRules drops with a log line: one that
\* has not 6 fields, or whose pattern does not compile
DroppedRecord(record) ==
    /\ ~IsComment(record)
    /\ ~(Len(record) = 1 /\ record[1] = <<>>)
    /\ \/ Len(record) # 6
       \/ /\ TrimSpace(record[2]) = <<"r", "e", "g", "e", "x">>
          /\ Compile(TrimSpace(record[3])).st = "error"

\* a tree with an error of a record, of a rule or of a file: a .csv file that
\* does not open or does not parse, or that holds a record parseRules drops
HasUnitError(entries) ==
    \E i \in DOMAIN entries :
        /\ entries[i].kind = "file"
        /\ HasSuffix(ToLower(entries[i].name), <<".", "c", "s", "v">>)
        /\ \/ ~entries[i].open
           \/ entries[i].csv = "err"
           \/ \E j \in 2..Len(entries[i].records) : DroppedRecord(entries[i].records[j])

\* a tree WalkDir can list to its end
Enumerable(entries) ==
    \A i \in DOMAIN entries : entries[i].kind # "baddir"

\* a reload has read the files and not failed
TickGoesOn ==
    proc = "serving" /\ load.pc \in {"sort", "lock", "swap"}

\* C20 as stated: an error of a record, of a rule or of a file during a reload
\* makes the reload fail: no reload that has read files with such an error
\* goes on to assign a map.
UnitErrorFailsTick ==
    TickGoesOn => ~HasUnitError(Tree(source))

\* the step of a reload in which loadRedirectsFromDir returns
TickFetches ==
    proc = "serving" /\ load.pc = "fetch" /\ load' # load

\* C20, amended: an error of a record, of a rule or of a file during a reload
\* does not make the reload fail: a reload returns an error, assigning
\* nothing, only when the files cannot be listed, and the map of a reload
\* that goes on holds the rules of every record to be compiled of every file
\* that parses, the records and files in error left out.
UnitErrorIsDropped ==
    [][TickFetches =>
          /\ load' = IdleLoad => ~Enumerable(Tree(source))
          /\ load'.pc = "sort" =>
                HoldsRulesOf(heap'[load'.tempRedirects].m,
                             ExpectedOfFiles(ParsedFiles(Tree(source))))]_vars

\* a reload has assigned a map read from files with a record of 5 fields and
\* a pattern that does not compile, after a handler read the map before it
UnitErrorIsDroppedWitness ==
    /\ proc = "serving"
    /\ lastLoad = "ok"
    /\ load.pc = "idle"
    /\ HasUnitError(Tree(heap[redirectMap].src))
    /\ \E i \in Tasks :
          /\ reqs[i].pc = "done"
          /\ reqs[i].seenShape # Shape(heap[redirectMap].m)

\* str holds sub as a substring
Contains(str, sub) ==
    \E k \in 0..(Len(str) - Len(sub)) : SubSeq(str, k + 1, k + Len(sub)) = sub

\* the request path of slot i is one the trailing-slash normalization changes
HasTrailingSlashes(i) ==
    Norm(Chars(reqs[i].path)) # Chars(reqs[i].path)

\* C23: a pattern rule is tested against the request path as it came, never
\* against the normalized one, and $path stands for the path as it came: the
\* rule ^/x$ redirects /x and does not redirect /x/, which goes on to the
\* catch-all, and /d/a// is redirected to a target that holds /d/a//.
PatternSeesRawPath ==
    /\ \A i \in Looped :
          LET rules == RulesOf(i)
              path == Chars(reqs[i].path)
          IN  \A k \in 1..reqs[i].res.evaluated :
                  rules[k].MatchType = Chars("regex") =>
                     /\ ~MatchString(rules[k].Regex, path) => ~Wins(i, k)
                     /\ (/\ Wins(i, k)
                         /\ Contains(rules[k].TargetURLFormat, <<"$", "p", "a", "t", "h">>)
                         /\ ~Contains(path, <<"$">>))
                        => Contains(reqs[i].res.target, path)
    /\ Answered("x.io", "/x", TargetX, 301)
    /\ Answered("x.io", "/x/", "//x/o", 307)
    /\ Answered("x.io", "/d/a//", TargetD, 302)

\* /x/ has gone past the rule ^/x$, which matches /x, the path normalized,
\* and has been redirected by the catch-all, the third rule of x.io
PatternSeesRawPathWitness ==
    \E i \in Looped :
        /\ reqs[i].host = "x.io" /\ reqs[i].path = "/x/"
        /\ HasTrailingSlashes(i)
        /\ RulesOf(i)[1].SourcePathOrRegex = Chars("^/x$")
        /\ MatchString(RulesOf(i)[1].Regex, Norm(Chars(reqs[i].path)))
        /\ Wins(i, 3)
        /\ reqs[i].res.evaluated = 3

\* the rule is written for the path: an exact rule whose path is the request's
\* up to Norm, a pattern rule whose pattern matches the request path
MatchesPath(rule, path) ==
    \/ rule.MatchType = Chars("exact") /\ Norm(rule.SourcePathOrRegex) = Norm(path)
    \/ rule.MatchType = Chars("regex") /\ MatchString(rule.Regex, path)

\* the rule has a target to give for the path
GivesTarget(rule, path) ==
    IF rule.MatchType = Chars("exact") THEN rule.TargetURLFormat # <<>>
    ELSE RuleTarget(rule, path) # <<>>

PathTokenIsRawPath ==
    \A i \in Looped :
        LET rule == RulesOf(i)[reqs[i].res.rule]
        IN  (/\ reqs[i].res.kind = "redirect"
             /\ rule.MatchType = Chars("regex")
             /\ Contains(rule.TargetURLFormat, <<"$", "p", "a", "t", "h">>))
            => Contains(reqs[i].res.target, Chars(reqs[i].path))

\* the integer an integer literal within the range of int stands for
IntOf(literal) ==
    LET signed == Head(literal) \in {"+", "-"}
        body == IF signed THEN Tail(literal) ELSE literal
    IN  IF Head(literal) = "-" THEN 0 - DecimalValue(body, 0) ELSE DecimalValue(body, 0)

\* a field that is, once trimmed, an integer literal within the range of int
TrimsToInt(field) ==
    IsIntLiteral(TrimSpace(field)) /\ ~BeyondInt(TrimSpace(field))

\* the later records to be compiled have given rules whose status code and
\* weight are the integers their fields stand for: the fields that trim to an
\* integer, or, padded being FALSE, those alone that are one as they are
NumbersCompiled(padded) ==
    load.pc = "sort" =>
        \A j \in LaterCompilable(RecordsRead) :
            LET record == RecordsRead[j]
                counts(field) == TrimsToInt(field) /\ (padded \/ TrimSpace(field) = field)
            IN  \A rule \in RulesOfRecord(heap[load.tempRedirects].m, record) :
                    /\ counts(record[5]) => rule.StatusCode = IntOf(TrimSpace(record[5]))
                    /\ counts(record[6]) => rule.Weight = IntOf(TrimSpace(record[6]))

\* C27: a status code or a weight that is an integer with white space before
\* or after it is compiled to that integer, as the field without the white
\* space is.
NumbersAreTrimmed ==
    NumbersCompiled(TRUE)

\* C27 for the fields without white space around the integer
PlainNumbersCompile ==
    NumbersCompiled(FALSE)

\* a load has read the files and gone on to sort or assign its map
LoadGoesOn ==
    load.pc \in {"sort", "lock", "swap"}

\* the map of a load that goes on holds the rules of every record to be
\* compiled of every file that opens and parses, those of the other files
\* left out
LoadHoldsParsedFiles ==
    LoadGoesOn =>
        HoldsRulesOf(heap[load.tempRedirects].m,
                     ExpectedOfFiles(ParsedFiles(Tree(heap[load.tempRedirects].src))))

\* a .csv file of the tree that opens and parses and has no record
HasEmptyCsv(entries) ==
    \E i \in DOMAIN entries :
        /\ entries[i].kind = "file"
        /\ HasSuffix(ToLower(entries[i].name), <<".", "c", "s", "v">>)
        /\ entries[i].open
        /\ entries[i].csv = "ok"
        /\ entries[i].records = <<>>

\* C21: a file that does not open or does not parse is left out and the rules
\* of every other file are compiled in the same load, and nothing but a tree
\* that cannot be listed ends a load, the first or a later one, before it
\* assigns its map.
OnlyEnumerationIsFatal ==
    /\ LoadHoldsParsedFiles
    /\ proc \in {"exited", "crashed"} => ~Enumerable(Tree(source))

\* C21 but for the file without a record: a load ends early only over a tree
\* that cannot be listed or that holds such a file
FatalOnlyUnlistedOrEmpty ==
    /\ LoadHoldsParsedFiles
    /\ proc = "exited" => ~Enumerable(Tree(source))
    /\ proc = "crashed" => HasEmptyCsv(Tree(source))

\* C30: a .csv file without a record gives no rule and ends neither the load
\* nor the process, in main's load and in a reload: the load goes on with the
\* rules of the other files.
EmptyFileGivesNoRules ==
    HasEmptyCsv(Tree(source)) =>
        /\ proc \in {"boot", "serving"}
        /\ (LoadGoesOn /\ heap[load.tempRedirects].src = source) =>
              load.totalRules = Len(ExpectedOfFiles(ParsedFiles(Tree(source))))

\* the slice the handler of slot i holds, once it has found its host
HeldRules(i) ==
    heap[reqs[i].rules.m].m[reqs[i].rules.h]

\* slot i's handler has found its host and has its loop still to run
Holding(i) ==
    reqs[i].pc = "match" /\ reqs[i].hostExists

\* a step leaves the slice a handler holds as it is: in the heap, with the
\* same rules in the same order
HeldListKept(i) ==
    (Holding(i) /\ reqs'[i].pc = "match") =>
        /\ reqs'[i].rules = reqs[i].rules
        /\ reqs[i].rules.m \in DOMAIN heap'
        /\ heap'[reqs[i].rules.m].m[reqs[i].rules.h] = HeldRules(i)

\* the answer of the handler's loop is that of the slice it holds, which has
\* the length the slice had at the lookup and is of a map that was assigned to
\* redirectMap: its first rule that gives a target, or NotFound
AnswerFromHeldList(i) ==
    (Holding(i) /\ reqs'[i].pc = "done") =>
        LET rules == CharsRules(HeldRules(i))
            path == Chars(reqs[i].path)
            hits == Hits(rules, path)
            first == CHOOSE k \in hits : \A j \in hits : k <= j
        IN  /\ heap[reqs[i].rules.m].pub
            /\ Len(rules) = reqs[i].seenShape[reqs[i].rules.h]
            /\ reqs'[i].res = IF hits = {} THEN NotFound(Len(rules))
                              ELSE [kind |-> "redirect",
                                    target |-> RuleTarget(rules[first], path),
                                    status |-> rules[first].StatusCode,
                                    rule |-> first,
                                    evaluated |-> first]

\* C28: the slice a handler got from the map under the read lock is the one
\* its loop runs over, whatever loadRules sorts and assigns meanwhile: no step
\* reorders, shortens or extends it, and the answer is that of matching the
\* request against this slice of one published map.
HeldListIsStable ==
    [][\A i \in Tasks : HeldListKept(i) /\ AnswerFromHeldList(i)]_vars

\* a handler holds a.io's slice of a map that a reload has replaced since the
\* lookup, by a map in which a.io has other rules, and a further reload has
\* sorted its own map
HeldListIsStableWitness ==
    \E i \in Tasks :
        /\ Holding(i)
        /\ reqs[i].rules.m # redirectMap
        /\ reqs[i].rules.h \in DOMAIN heap[redirectMap].m
        /\ heap[redirectMap].m[reqs[i].rules.h] # HeldRules(i)
        /\ load.pc = "lock"

\* the maps a loadRules call has made and not assigned to redirectMap yet
BeingBuilt ==
    {id \in DOMAIN heap : id # redirectMap /\ ~heap[id].pub}

\* no two calls of loadRules are in progress: there is at most one map being
\* built, that of the one call that has read the files, the write lock is held
\* in that call's assignment only, and up to the end of main's call nothing
\* has been assigned
OneLoadInProgress ==
    /\ Cardinality(BeingBuilt) <= 1
    /\ BeingBuilt = IF LoadGoesOn THEN {load.tempRedirects} ELSE {}
    /\ mapMutex.w => load.pc = "swap"
    /\ proc = "boot" => ~heap[redirectMap].pub

\* redirectMap changes in the last step of the one call in progress alone, to
\* the map of that call, which was read from the content as it is now
PublishesNewest ==
    redirectMap' # redirectMap =>
        /\ load.pc = "swap"
        /\ load' = IdleLoad
        /\ redirectMap' = load.tempRedirects
        /\ heap'[redirectMap'].pub
        /\ heap'[redirectMap'].src = source

\* C29: one call of loadRules at most is in progress at any time, main's call
\* ending before the ticker's first and each call of the ticker before the
\* next, so the maps are assigned in the order in which their files were read
\* and a map read from older content never replaces one read from newer.
LoadsOneAtATime ==
    []OneLoadInProgress /\ [][PublishesNewest]_vars

\* a reload is about to replace the map read from the content as it was with
\* the map it has read from the content as it is now
LoadsOneAtATimeWitness ==
    /\ proc = "serving"
    /\ load.pc = "swap"
    /\ heap[redirectMap].pub
    /\ heap[redirectMap].src # source
    /\ heap[load.tempRedirects].src = source
    /\ BeingBuilt = {load.tempRedirects}

\* the step in which the redirectHandler of slot i reads redirectMap[host]
LookupStep(i) ==
    /\ reqs[i].pc = "locked"
    /\ reqs[i].handler = "redirect"
    /\ reqs'[i].pc = "match"

\* the lookup has given the handler the slice the published map holds for the
\* host, as it was assigned
GivesPublishedList(i) ==
    /\ reqs'[i].rules = [m |-> redirectMap, h |-> HostOf(i)]
    /\ heap[redirectMap].pub
    /\ heap'[redirectMap] = heap[redirectMap]

\* C24 as stated: a lookup gives the host's slice as it was published, and it
\* finds no slice only for a host that no map assigned to redirectMap so far
\* has held.
AbsentOnlyIfNeverLoaded ==
    [][\A i \in Tasks :
          LookupStep(i) =>
              IF reqs'[i].hostExists
              THEN GivesPublishedList(i)
              ELSE HostOf(i) \notin heap[redirectMap].ever]_vars

\* C24, amended: a lookup gives the host's slice as it was published in the
\* map redirectMap refers to at the lookup, and it finds no slice exactly
\* when that map does not hold the host, whether or not a map before it did.
AbsentIffNotInLiveMap ==
    [][\A i \in Tasks :
          LookupStep(i) =>
              /\ reqs'[i].hostExists <=> HostOf(i) \in DOMAIN heap[redirectMap].m
              /\ IF reqs'[i].hostExists
                 THEN GivesPublishedList(i)
                 ELSE reqs'[i].rules = NoRef]_vars

\* the handler of a request for b.io has found no slice in a map that holds
\* a.io alone, after a map that held b.io
AbsentIffNotInLiveMapWitness ==
    \E i \in Tasks :
        /\ reqs[i].pc = "match"
        /\ reqs[i].host = "b.io"
        /\ ~reqs[i].hostExists
        /\ DOMAIN reqs[i].seenShape = {"a.io"}
        /\ Shape(heap[redirectMap].m) = reqs[i].seenShape
        /\ "b.io" \in heap[redirectMap].ever

\* an entry of a tree without its name
Content(entry) ==
    [entry EXCEPT !.name = <<>>]

\* two trees hold the same files, in whatever order WalkDir reads them
SameFiles(src1, src2) ==
    /\ Len(src1) = Len(src2)
    /\ \E p \in Permutations(DOMAIN src1) :
          \A i \in DOMAIN src1 : Content(src1[i]) = Content(src2[p[i]])

\* how often rule is in rules
Times(rules, rule) ==
    Cardinality({i \in DOMAIN rules : rules[i] = rule})

\* two slices hold the same rules and the same weights place by place: they
\* differ at most in the order of rules of one weight
SameUpToTies(rules1, rules2) ==
    /\ Weights(rules1) = Weights(rules2)
    /\ \A i \in DOMAIN rules1 : Times(rules1, rules1[i]) = Times(rules2, rules1[i])

RedirectCodes ==
    300..399

\* the answer of a handler that has redirected has the status code of the
\* rule that gave the target
CarriesRuleCode ==
    \A i \in Looped :
        reqs[i].res.kind = "redirect" =>
            reqs[i].res.status = RulesOf(i)[reqs[i].res.rule].StatusCode

\* every rule of the published map has a redirect code
PublishedCodesRedirect ==
    heap[redirectMap].pub =>
        \A h \in DOMAIN heap[redirectMap].m :
            \A k \in DOMAIN heap[redirectMap].m[h] :
                CharsRules(heap[redirectMap].m[h])[k].StatusCode \in RedirectCodes

\* every answer that redirects has a redirect code
AnswerCodesRedirect ==
    \A i \in Looped :
        reqs[i].res.kind = "redirect" => reqs[i].res.status \in RedirectCodes

\* C31: a handler that redirects answers with the status code of the rule
\* that gave the target, and the status code of every rule of the published
\* map, so that of every answer, is a redirect code, 300 to 399.
RedirectCarriesRedirectCode ==
    /\ CarriesRuleCode
    /\ PublishedCodesRedirect
    /\ AnswerCodesRedirect

====
